---- MODULE Spec2Model ----
(***************************************************************************)
(* rtshark: decoding of the PDML report of a tshark child process into     *)
(* Packet / Layer / Metadata values (src/src/lib.rs).                      *)
(*                                                                         *)
(* Conventions of the model                                                *)
(*  - a Rust String is a sequence of one-character strings, so that        *)
(*    split('.'), starts_with("_ws.") and the integer parsers are computed *)
(*    on the characters as the code computes them;                         *)
(*  - Option<T> is a sequence of length 0 (None) or 1 (Some);              *)
(*  - io::Result<T> is a record [ok, v, kind]: Ok(v) or Err(kind);         *)
(*  - a u32 and the i64 microsecond timestamp are kept as two decimal      *)
(*    limbs [hi, lo] standing for hi * 10^6 + lo, because the integers of  *)
(*    TLC are narrower than the integers of the program;                   *)
(*  - an XML tag is the record of its attributes. The attributes are       *)
(*    syntactically well formed; one whose bytes are not UTF-8 holds the   *)
(*    character BadUtf8.                                                   *)
(***************************************************************************)
EXTENDS Integers, Sequences, FiniteSets, TLC

(***************************************************************************)
(* Strings                                                                 *)
(***************************************************************************)
None == <<>>

Some(x) == <<x>>

Ok(x) == [ok |-> TRUE, v |-> x, kind |-> "Ok"]

Err(k) == [ok |-> FALSE, v |-> <<>>, kind |-> k]

BadUtf8 == "\\xFF"

Digits == {"0", "1", "2", "3", "4", "5", "6", "7", "8", "9"}

DigitVal == "0" :> 0 @@ "1" :> 1 @@ "2" :> 2 @@ "3" :> 3 @@ "4" :> 4 @@
            "5" :> 5 @@ "6" :> 6 @@ "7" :> 7 @@ "8" :> 8 @@ "9" :> 9

Chars(s) == {s[i] : i \in 1..Len(s)}

\* position of the first occurrence of character c in s, 0 when there is none
Find(s, c) ==
    IF c \in Chars(s)
    THEN CHOOSE i \in 1..Len(s) : s[i] = c /\ \A j \in 1..(i - 1) : s[j] # c
    ELSE 0

StartsWith(s, p) == Len(s) >= Len(p) /\ SubSeq(s, 1, Len(p)) = p

\* name.split('.').next(): the text before the first dot, the whole text
\* when it holds no dot
SplitFirst(s) ==
    IF Find(s, ".") = 0 THEN s ELSE SubSeq(s, 1, Find(s, ".") - 1)

\* value.split_once('.')
SplitOnce(s) ==
    IF Find(s, ".") = 0
    THEN None
    ELSE Some(<<SubSeq(s, 1, Find(s, ".") - 1),
                SubSeq(s, Find(s, ".") + 1, Len(s))>>)

GENINFO == <<"g", "e", "n", "i", "n", "f", "o">>

FAKE_FIELD_WRAPPER ==
    <<"f", "a", "k", "e", "-", "f", "i", "e", "l", "d", "-",
      "w", "r", "a", "p", "p", "e", "r">>

TIMESTAMP == <<"t", "i", "m", "e", "s", "t", "a", "m", "p">>

WS_PREFIX == <<"_", "w", "s", ".">>

(***************************************************************************)
(* Integers wider than those of TLC: hi * 10^6 + lo                        *)
(***************************************************************************)
LIMB == 1000 * 1000

Wide(h, l) == [hi |-> h, lo |-> l]

\* u32::MAX = 4294967295
U32_MAX == Wide(4294, 967295)

WideLeq(a, b) == a.hi < b.hi \/ (a.hi = b.hi /\ a.lo <= b.lo)

\* acc * 10 + d, the step of the decimal parsers
WideStep(acc, d) ==
    Wide(acc.hi * 10 + ((acc.lo * 10 + d) \div LIMB), (acc.lo * 10 + d) % LIMB)

RECURSIVE ParseDigitsU32(_, _)
RECURSIVE CheckedU32(_, _)
\* the checked accumulation of u32::from_str: None on a character that is not
\* a digit and on overflow
ParseDigitsU32(s, acc) ==
    IF s = <<>> THEN Some(acc)
    ELSE IF Head(s) \notin Digits THEN None
    ELSE CheckedU32(Tail(s), WideStep(acc, DigitVal[Head(s)]))

CheckedU32(rest, n) ==
    IF WideLeq(n, U32_MAX) THEN ParseDigitsU32(rest, n) ELSE None

ParseUnsigned(body) ==
    IF body = <<>> THEN None ELSE ParseDigitsU32(body, Wide(0, 0))

\* str::parse::<u32>(): an optional '+', then at least one digit
ParseU32(s) ==
    ParseUnsigned(IF s # <<>> /\ Head(s) = "+" THEN Tail(s) ELSE s)

RECURSIVE ParseDigitsInt(_, _)
ParseDigitsInt(s, acc) ==
    IF s = <<>> THEN Some(acc)
    ELSE IF Head(s) \notin Digits THEN None
    ELSE ParseDigitsInt(Tail(s), acc * 10 + DigitVal[Head(s)])

Signed(neg, mag) ==
    IF mag = None THEN None
    ELSE Some(IF neg THEN 0 - mag[1] ELSE mag[1])

ParseMagnitude(body) ==
    IF body = <<>> THEN None ELSE ParseDigitsInt(body, 0)

\* str::parse::<i64>(): an optional sign, then at least one digit. The
\* seconds of the model stay below 2^31, so the overflow of i64 is not reached.
ParseI64(s) ==
    Signed(s # <<>> /\ Head(s) = "-",
           ParseMagnitude(IF s # <<>> /\ Head(s) \in {"+", "-"}
                          THEN Tail(s) ELSE s))

(***************************************************************************)
(* Metadata, Layer, Packet                                                 *)
(***************************************************************************)
\* Metadata::new: raw_value starts as None
MetadataNew(name, value, display, size, position) ==
    [name |-> name, value |-> value, raw_value |-> None,
     display |-> display, size |-> size, position |-> position]

MetadataValue(m) == m.value

\* a raw_value() that returns the decoded value
MetadataRawValue_Decoded(m) == m.value

\* self.raw_value.as_ref().unwrap_or(&self.value)
MetadataRawValue(m) == IF m.raw_value = None THEN m.value ELSE m.raw_value[1]

MetadataDisplay(m) == m.display

LayerNew(name, index) == [name |-> name, index |-> index, metadata |-> <<>>]

\* an add that puts the Metadata before the others
LayerAdd_Front(layer, m) == [layer EXCEPT !.metadata = <<m>> \o @]

LayerAdd(layer, m) == [layer EXCEPT !.metadata = Append(@, m)]

RECURSIVE FindMetadata(_, _)
\* the linear scan of iter().find(): the first element with that name
FindMetadata(ms, name) ==
    IF ms = <<>> THEN None
    ELSE IF Head(ms).name = name THEN Some(Head(ms))
    ELSE FindMetadata(Tail(ms), name)

\* Layer::metadata: self.metadata.iter().find(|m| m.name().eq(name))
LayerMetadata(layer, name) == FindMetadata(layer.metadata, name)

PacketNew == [layers |-> <<>>, timestamp_micros |-> None]

\* a push that numbers the layers from one
PacketPush_OneBased(p, name) ==
    [p EXCEPT !.layers = Append(@, LayerNew(name, Len(p.layers) + 1))]

\* Packet::push: the new layer takes the current length as its index
PacketPush(p, name) ==
    [p EXCEPT !.layers = Append(@, LayerNew(name, Len(p.layers)))]

\* a push_if_not_exist that looks for the name in every layer
PacketPushIfNotExist_AnyLayer(p, name) ==
    IF \E i \in 1..Len(p.layers) : p.layers[i].name = name
    THEN p
    ELSE PacketPush(p, name)

\* a push_if_not_exist that always pushes
PacketPushIfNotExist_Always(p, name) == PacketPush(p, name)

\* Packet::push_if_not_exist: only the last layer is compared
PacketPushIfNotExist(p, name) ==
    IF p.layers # <<>> /\ p.layers[Len(p.layers)].name = name
    THEN p
    ELSE PacketPush(p, name)

\* packet.last_layer_mut().map(|layer| layer.add(m))
PacketAddToLast(p, m) ==
    [p EXCEPT !.layers[Len(p.layers)] = LayerAdd(@, m)]

PacketLayerIndex(p, index) ==
    IF index < Len(p.layers) THEN Some(p.layers[index + 1]) ELSE None

RECURSIVE FindLayer(_, _)
FindLayer(ls, name) ==
    IF ls = <<>> THEN None
    ELSE IF Head(ls).name = name THEN Some(Head(ls))
    ELSE FindLayer(Tail(ls), name)

\* Packet::layer_name: self.layers.iter().find(|&layer| layer.name.eq(name))
PacketLayerName(p, name) == FindLayer(p.layers, name)

PacketLayerCount(p) == Len(p.layers)

(***************************************************************************)
(* Attributes of a tag                                                     *)
(***************************************************************************)
\* rtshark_attr_by_name: InvalidInput when the tag has no such attribute,
\* InvalidData when its value is not UTF-8
rtshark_attr_by_name(tag, key) ==
    IF tag[key] = None THEN Err("InvalidInput")
    ELSE IF BadUtf8 \in Chars(tag[key][1]) THEN Err("InvalidData")
    ELSE Ok(tag[key][1])

U32Result(o) == IF o = None THEN Err("InvalidData") ELSE Ok(o[1])

ParseAttrU32(a) == IF ~a.ok THEN a ELSE U32Result(ParseU32(a.v))

rtshark_attr_by_name_u32(tag, key) ==
    ParseAttrU32(rtshark_attr_by_name(tag, key))

\* a selection that prefers the value attribute to show
SelectFrom_ValueFirst(show, value, showname) ==
    IF value.ok THEN value
    ELSE IF value.kind # "InvalidInput" THEN value
    ELSE IF show.ok THEN show
    ELSE IF show.kind # "InvalidInput" THEN show
    ELSE IF showname.ok THEN showname
    ELSE value

\* a selection that falls back to the empty text when the tag has none of
\* the three attributes
SelectFrom_EmptyDefault(show, value, showname) ==
    IF show.ok THEN show
    ELSE IF show.kind # "InvalidInput" THEN show
    ELSE IF value.ok THEN value
    ELSE IF value.kind # "InvalidInput" THEN value
    ELSE IF showname.ok THEN showname
    ELSE Ok(<<>>)

\* the match of rtshark_build_metadata on "show", then "value", then
\* "showname": an error other than a missing attribute is returned as it is,
\* and with none of the three the error of "value" is returned
SelectFrom(show, value, showname) ==
    IF show.ok THEN show
    ELSE IF show.kind # "InvalidInput" THEN show
    ELSE IF value.ok THEN value
    ELSE IF value.kind # "InvalidInput" THEN value
    ELSE IF showname.ok THEN showname
    ELSE value

SelectValue(tag) ==
    SelectFrom(rtshark_attr_by_name(tag, "show"),
               rtshark_attr_by_name(tag, "value"),
               rtshark_attr_by_name(tag, "showname"))

\* a conversion that stores zero for a number that cannot be read
OptionOf_Zero(r) == IF r.ok THEN Some(r.v) ELSE Some(Wide(0, 0))

OptionOf(r) == IF r.ok THEN Some(r.v) ELSE None

\* metadata.raw_value: the "value" attribute when it differs from the value
RawValue(raw, value) ==
    IF raw.ok /\ raw.v # value THEN Some(raw.v) ELSE None

\* the Metadata of a field that is not skipped
FillMetadata(name, value, position, size, display, raw) ==
    [MetadataNew(name, value, None, None, None) EXCEPT
        !.position = OptionOf(position),
        !.size = OptionOf(size),
        !.display = OptionOf(display),
        !.raw_value = RawValue(raw, value)]

\* a skip test that forgets the filters
Skipped_NoFilters(name, flt) ==
    \/ name = <<>>
    \/ StartsWith(name, WS_PREFIX)

\* the fields that are not decoded: an empty name, a name that starts with
\* "_ws.", a name of the filters
Skipped(name, flt) ==
    \/ name = <<>>
    \/ StartsWith(name, WS_PREFIX)
    \/ \E i \in 1..Len(flt) : flt[i] = name

\* a decoder that skips a field without a name instead of failing
BuildFrom_NamelessSkipped(tag, flt, name, sel) ==
    IF ~name.ok THEN Ok(None)
    ELSE IF Skipped(name.v, flt) THEN Ok(None)
    ELSE IF ~sel.ok THEN sel
    ELSE Ok(Some(FillMetadata(name.v, sel.v,
                              rtshark_attr_by_name_u32(tag, "pos"),
                              rtshark_attr_by_name_u32(tag, "size"),
                              rtshark_attr_by_name(tag, "showname"),
                              rtshark_attr_by_name(tag, "value"))))

\* a decoder that selects the value before it looks at the name
BuildFrom_ValueFirst(tag, flt, name, sel) ==
    IF ~name.ok THEN name
    ELSE IF ~sel.ok THEN sel
    ELSE IF Skipped(name.v, flt) THEN Ok(None)
    ELSE Ok(Some(FillMetadata(name.v, sel.v,
                              rtshark_attr_by_name_u32(tag, "pos"),
                              rtshark_attr_by_name_u32(tag, "size"),
                              rtshark_attr_by_name(tag, "showname"),
                              rtshark_attr_by_name(tag, "value"))))

BuildFrom(tag, flt, name, sel) ==
    IF ~name.ok THEN name
    ELSE IF Skipped(name.v, flt) THEN Ok(None)
    ELSE IF ~sel.ok THEN sel
    ELSE Ok(Some(FillMetadata(name.v, sel.v,
                              rtshark_attr_by_name_u32(tag, "pos"),
                              rtshark_attr_by_name_u32(tag, "size"),
                              rtshark_attr_by_name(tag, "showname"),
                              rtshark_attr_by_name(tag, "value"))))

\* rtshark_build_metadata: Err, Ok(None) for a skipped field, Ok(Some(m))
rtshark_build_metadata(tag, flt) ==
    BuildFrom(tag, flt, rtshark_attr_by_name(tag, "name"), SelectValue(tag))

(***************************************************************************)
(* The timestamp of the general information                                *)
(***************************************************************************)
NANOS_LIMIT == 2 * 1000 * 1000 * 1000

NANOS_PER_SEC == 1000 * 1000 * 1000

ToInt(w) == w.hi * LIMB + w.lo

\* Utc.timestamp_opt(secs, nsecs) is LocalResult::Single: the nanoseconds are
\* below two seconds, and reach one second only in a leap second (second 59
\* of a minute). The seconds of the model are far inside the range of dates.
timestamp_opt(secs, nsecs) ==
    /\ nsecs.hi < NANOS_LIMIT \div LIMB
    /\ ToInt(nsecs) < NANOS_PER_SEC \/ secs % 60 = 59

Normalize(secs, q) == Wide(secs + (q \div LIMB), q % LIMB)

\* a conversion that takes the nanoseconds for microseconds
timestamp_micros_Nanos(secs, nsecs) == Normalize(secs, ToInt(nsecs))

\* dt.timestamp_micros(): secs * 1_000_000 + nsecs / 1000, as limbs
timestamp_micros(secs, nsecs) == Normalize(secs, ToInt(nsecs) \div 1000)

GeninfoResult(res, p) == [res |-> res, packet |-> p]

\* a conversion that leaves the timestamp unset when a half is no number
SetTimestamp_Silent(secs, nsecs, p) ==
    IF secs = None \/ nsecs = None THEN GeninfoResult(Ok(<<>>), p)
    ELSE IF ~timestamp_opt(secs[1], nsecs[1])
    THEN GeninfoResult(Ok(<<>>), p)
    ELSE GeninfoResult(Ok(<<>>),
             [p EXCEPT !.timestamp_micros =
                  Some(timestamp_micros(secs[1], nsecs[1]))])

SetTimestamp(secs, nsecs, p) ==
    IF secs = None \/ nsecs = None THEN GeninfoResult(Err("InvalidData"), p)
    ELSE IF ~timestamp_opt(secs[1], nsecs[1])
    THEN GeninfoResult(Err("InvalidData"), p)
    ELSE GeninfoResult(Ok(<<>>),
             [p EXCEPT !.timestamp_micros =
                  Some(timestamp_micros(secs[1], nsecs[1]))])

SplitTimestamp(parts, p) ==
    IF parts = None THEN GeninfoResult(Err("InvalidData"), p)
    ELSE SetTimestamp(ParseI64(parts[1][1]), ParseU32(parts[1][2]), p)

GeninfoFrom(name, value, p) ==
    IF ~name.ok THEN GeninfoResult(name, p)
    ELSE IF name.v # TIMESTAMP THEN GeninfoResult(Ok(<<>>), p)
    ELSE IF ~value.ok THEN GeninfoResult(value, p)
    ELSE SplitTimestamp(SplitOnce(value.v), p)

\* geninfo_metadata: the result and the packet it leaves
geninfo_metadata(tag, p) ==
    GeninfoFrom(rtshark_attr_by_name(tag, "name"),
                rtshark_attr_by_name(tag, "value"), p)

\* a list that forgets the fake wrapper
ignored_protocols_OnlyGeninfo(name) == name = GENINFO

\* list of protocols in tshark output but not in packet data
ignored_protocols(name) == name = GENINFO \/ name = FAKE_FIELD_WRAPPER

(***************************************************************************)
(* One event of parse_xml                                                  *)
(***************************************************************************)
\* an XML event: Start, Empty or End with its tag, Eof, or Error (the reader
\* reports malformed markup)
Tag(elem, name, show, value, showname, pos, size) ==
    [elem |-> elem, name |-> name, show |-> show, value |-> value,
     showname |-> showname, pos |-> pos, size |-> size]

Event(type, tag) == [type |-> type, tag |-> tag]

NoTag == Tag("", None, None, None, None, None, None)

NoEvent == Event("None", NoTag)

\* what one iteration of the loop leaves: the packet, the protocol context
\* and, when the function returns, its result
Step(p, pn, ret) == [packet |-> p, protoname |-> pn, ret |-> ret]

\* _add_metadata: push the layer of the name's prefix unless it is the last
\* one, then add to the last layer
AddToLastOrErr(q, m) ==
    IF q.layers = <<>> THEN Err("InvalidData") ELSE Ok(PacketAddToLast(q, m))

AddMetadata(p, m) == AddToLastOrErr(PacketPushIfNotExist(p, SplitFirst(m.name)), m)

\* _add_metadata(&mut packet, metadata)?
Added(r, p, pn) ==
    IF ~r.ok THEN Step(p, pn, Some(r)) ELSE Step(r.v, pn, None)

\* a protocol tag that reuses the last layer when it has the same name
StartProtoNamed_Reuse(proto, p, pn) ==
    IF ~proto.ok THEN Step(p, pn, Some(proto))
    ELSE IF ~ignored_protocols(proto.v)
    THEN Step(PacketPushIfNotExist(p, proto.v), Some(proto.v), None)
    ELSE Step(p, Some(proto.v), None)

\* a protocol tag without a readable name pushes a layer without a name
StartProtoNamed_Nameless(proto, p, pn) ==
    IF ~proto.ok THEN Step(PacketPush(p, <<>>), Some(<<>>), None)
    ELSE IF ~ignored_protocols(proto.v)
    THEN Step(PacketPush(p, proto.v), Some(proto.v), None)
    ELSE Step(p, Some(proto.v), None)

\* a protocol tag that becomes the context without pushing its layer
StartProtoNamed_NoPush(proto, p, pn) ==
    IF ~proto.ok THEN Step(p, pn, Some(proto))
    ELSE Step(p, Some(proto.v), None)

StartProtoNamed(proto, p, pn) ==
    IF ~proto.ok THEN Step(p, pn, Some(proto))
    ELSE IF ~ignored_protocols(proto.v)
    THEN Step(PacketPush(p, proto.v), Some(proto.v), None)
    ELSE Step(p, Some(proto.v), None)

\* Event::Start of a "proto" tag
StartProto(tag, p, pn) == StartProtoNamed(rtshark_attr_by_name(tag, "name"), p, pn)

StartFieldBuilt(md, p, pn) ==
    IF ~md.ok THEN Step(p, pn, Some(md))
    ELSE IF md.v = None THEN Step(p, pn, None)
    ELSE Added(AddMetadata(p, md.v[1]), p, pn)

\* Event::Start of a "field" tag: the protocol context is not consulted
StartField(tag, p, pn, flt) ==
    StartFieldBuilt(rtshark_build_metadata(tag, flt), p, pn)

\* the "fake-field-wrapper" branch of Event::Empty: add to the last layer
\* only when its name is the prefix of the field name
FakeWrapperAdd(p, m) ==
    IF p.layers # <<>> /\ p.layers[Len(p.layers)].name = SplitFirst(m.name)
    THEN PacketAddToLast(p, m)
    ELSE p

\* packet.last_layer_mut().unwrap().add(metadata): without a layer the
\* unwrap panics
UnwrapAdd(p, pn, m) ==
    IF p.layers = <<>> THEN Step(p, pn, Some(Err("Panic")))
    ELSE Step(PacketAddToLast(p, m), pn, None)

\* Event::Empty of a field inside a protocol that is not "geninfo"
EmptyFieldInProto(md, p, pn) ==
    IF ~md.ok THEN Step(p, pn, Some(md))
    ELSE IF md.v = None THEN Step(p, pn, None)
    ELSE IF pn[1] = FAKE_FIELD_WRAPPER
    THEN Step(FakeWrapperAdd(p, md.v[1]), pn, None)
    ELSE UnwrapAdd(p, pn, md.v[1])

GeninfoStep(gi, p, pn) ==
    IF ~gi.res.ok THEN Step(p, pn, Some(gi.res)) ELSE Step(gi.packet, pn, None)

\* Event::Empty of a "field" tag
EmptyField(tag, p, pn, flt) ==
    IF pn = None THEN StartFieldBuilt(rtshark_build_metadata(tag, flt), p, pn)
    ELSE IF pn[1] = GENINFO THEN GeninfoStep(geninfo_metadata(tag, p), p, pn)
    ELSE EmptyFieldInProto(rtshark_build_metadata(tag, flt), p, pn)

\* a loop that also returns the packet at </proto>
EndTag_ReturnsAtProto(tag, p, pn) ==
    IF tag.elem = "packet" THEN Step(p, pn, Some(Ok(Some(p))))
    ELSE IF tag.elem = "proto" THEN Step(p, None, Some(Ok(Some(p))))
    ELSE Step(p, pn, None)

\* Event::End
EndTag(tag, p, pn) ==
    IF tag.elem = "packet" THEN Step(p, pn, Some(Ok(Some(p))))
    ELSE IF tag.elem = "proto" THEN Step(p, None, None)
    ELSE Step(p, pn, None)

\* one iteration of the loop of parse_xml on event e
ParseEvent(e, p, pn, flt) ==
    CASE e.type = "Start" /\ e.tag.elem = "proto" -> StartProto(e.tag, p, pn)
      [] e.type = "Start" /\ e.tag.elem = "field" -> StartField(e.tag, p, pn, flt)
      [] e.type = "Empty" /\ e.tag.elem = "field" -> EmptyField(e.tag, p, pn, flt)
      [] e.type = "End" -> EndTag(e.tag, p, pn)
      [] e.type = "Eof" -> Step(p, pn, Some(Ok(None)))
      [] e.type = "Error" -> Step(p, pn, Some(Err("InvalidData")))
      [] OTHER -> Step(p, pn, None)

(***************************************************************************)
(* The report written by the child process                                 *)
(***************************************************************************)
MaxPackets == 2

MaxTags == 3

MaxDepth == 2

MaxErrLines == 2

\* try_wait_has_exited: let mut count = 3
POLLS == 3

IP == <<"i", "p">>

TCP == <<"t", "c", "p">>

IP_S == <<"i", "p", ".", "s">>

IP_F == <<"i", "p", ".", "f">>

TCP_P == <<"t", "c", "p", ".", "p">>

WS_E == <<"_", "w", "s", ".", "e">>

ONE == <<"1">>

FieldTag(name, show, value) == Tag("field", name, show, value, None, None, None)

\* the field tags of the report: without a name, readable, without any
\* readable value, filtered, diagnostic, and the timestamp of the general
\* information (well formed and malformed)
FieldTags ==
    { FieldTag(None, Some(ONE), None),
      FieldTag(Some(IP_S), Some(ONE), None),
      FieldTag(Some(IP_S), None, None),
      FieldTag(Some(TCP_P), Some(ONE), None),
      FieldTag(Some(IP_F), Some(ONE), None),
      FieldTag(Some(WS_E), None, None),
      FieldTag(Some(TIMESTAMP), None, Some(<<"1", ".", "5", "0", "0", "0">>)),
      FieldTag(Some(TIMESTAMP), None, Some(<<"x">>)) }

ProtoTag(name) == Tag("proto", name, None, None, None, None, None)

ProtoTags ==
    { ProtoTag(Some(IP)), ProtoTag(Some(TCP)), ProtoTag(Some(GENINFO)),
      ProtoTag(Some(FAKE_FIELD_WRAPPER)), ProtoTag(None),
      ProtoTag(Some(<<BadUtf8>>)) }

ElemTag(elem) == Tag(elem, None, None, None, None, None, None)

\* the metadata_blacklist of the builder
FilterSets == { <<>>, <<IP_F>> }

\* the diagnostic lines the child may leave on its error channel
ErrLines == << <<"e", "1">>, <<"e", "2">>, <<"e", "3">> >>

(***************************************************************************)
(* RTSharkBuilder, RTSharkBuilderReady::spawn                              *)
(***************************************************************************)
MaxInputs == 2

\* the paths given to input_path
Paths == {"a.pcap", "b.pcap"}

\* RTSharkBuilder::input_path: the first path, no live capture, no blacklist
BuilderReady(path) ==
    [input_path |-> <<path>>, live_capture |-> FALSE,
     metadata_blacklist |-> <<>>]

\* the builder a session with these filters was spawned from
Spawned(flt) == [BuilderReady("a.pcap") EXCEPT !.metadata_blacklist = flt]

\* what the machine answers: std::fs::metadata for each path ("ok" or the
\* kind of its error) and Command::spawn for tshark; execs counts the
\* processes the machine was asked to start
Answers == {"ok", "NotFound", "PermissionDenied"}

Host(files, tshark, execs) ==
    [files |-> files, tshark |-> tshark, execs |-> execs]

\* the machine on which a session runs
Started == Host([f \in Paths |-> "ok"], "ok", 1)

RECURSIVE LiveInputs(_)
\* input_path.iter().for_each(|i| input.extend(&["-i", i]))
LiveInputs(paths) ==
    IF paths = <<>> THEN <<>>
    ELSE <<"-i", Head(paths)>> \o LiveInputs(Tail(paths))

\* a preparation that does not look at the input file
prepare_args_Unchecked(b, files) ==
    IF b.live_capture THEN Ok(LiveInputs(b.input_path) \o <<"-n", "-Q">>)
    ELSE IF Len(b.input_path) > 1 THEN Err("InvalidInput")
    ELSE Ok(<<"-r", b.input_path[1], "-n", "-Q">>)

\* prepare_args: without live capture a single input file that exists
prepare_args(b, files) ==
    IF b.live_capture THEN Ok(LiveInputs(b.input_path) \o <<"-n", "-Q">>)
    ELSE IF Len(b.input_path) > 1 THEN Err("InvalidInput")
    ELSE IF files[b.input_path[1]] # "ok" THEN Err(files[b.input_path[1]])
    ELSE Ok(<<"-r", b.input_path[1], "-n", "-Q">>)

\* spawn_tshark: Command::new("tshark").args(..).spawn(), its error kept
spawn_tshark(h, args) == IF h.tshark = "ok" THEN Ok("child") ELSE Err(h.tshark)

\* the process id of the handle: self.process.as_ref().map(|p| p.id())
pid(proc) == IF proc = None THEN None ELSE Some(proc[1])

VARIABLES
    gen,        \* the child's position in the report it writes
    child,      \* the tshark process: "running", "exited" (not yet waited
                \* for) or "reaped"
    stderr,     \* the unread lines of the child's error channel
    process,    \* RTShark.process: Some("child") or None
    filters,    \* RTShark.filters
    pc,         \* where read() stands: "idle", "parse" or "poll"
    packet,     \* parse_xml: let mut packet
    protoname,  \* parse_xml: let mut protoname
    count,      \* try_wait_has_exited: let mut count
    ret,        \* what the last read() returned
    ev,         \* the event the reader delivered last in the running call
    pre,        \* packet and protoname before that event
    origin,     \* for each layer of packet, what pushed it: "proto" or "field"
                \* (after the end of the output: for the packet given up)
    hist,       \* the calls made and packet elements read so far
    obs,        \* what the caller has seen: an Ok(None), the diagnostic
                \* lines, the polls of the running read(), the last kill()
    builder,    \* the RTSharkBuilderReady that spawn() is called on
    host,       \* the machine: the input files, the tshark executable and
                \* the number of processes it was asked to start
    pipes       \* the child's piped standard output and what the child
                \* waits for, where the size of the pipes matters

vars == <<gen, child, stderr, process, filters, pc, packet, protoname, count,
          ret, ev, pre, origin, hist, obs, builder, host, pipes>>

Pending == [ok |-> FALSE, v |-> <<>>, kind |-> "Pending"]

\* Err(std::io::Error::new(ErrorKind::InvalidInput, line))
ErrLine(line) == [ok |-> FALSE, v |-> line, kind |-> "InvalidInput"]

NoPre == [packet |-> PacketNew, protoname |-> None]

\* an end of the output after which the reader reads on
Ended_Reopens == [open |-> <<>>, pkts |-> 0, tags |-> 0, ended |-> FALSE]

\* the child has closed its output: where it stood in the report no longer
\* matters
Ended == [open |-> <<>>, pkts |-> 0, tags |-> 0, ended |-> TRUE]

NoKill == [found |-> "", check |-> "", signalled |-> FALSE, waited |-> FALSE]

\* the pipes where their size is left out: the child is never held up
NoPipes == [out |-> 0, op |-> "none", status |-> "none"]

NoObs == [none |-> FALSE, errs |-> 0, polls |-> 0, written |-> 0,
          kill |-> NoKill]

Top(s) == IF s = <<>> THEN "" ELSE s[Len(s)]

Pop(s) == SubSeq(s, 1, Len(s) - 1)

FieldDepth(s) == Cardinality({i \in 1..Len(s) : s[i] = "field"})

Init ==
    /\ gen = [open |-> <<>>, pkts |-> 0, tags |-> 0, ended |-> FALSE]
    /\ child = "running"
    /\ stderr = <<>>
    /\ process = Some("child")
    /\ filters \in FilterSets
    /\ pc = "idle"
    /\ packet = PacketNew
    /\ protoname = None
    /\ count = 0
    /\ ret = Pending
    /\ ev = NoEvent
    /\ pre = NoPre
    /\ origin = <<>>
    /\ hist = [calls |-> 0, somes |-> 0, closed |-> 0, clean |-> TRUE,
               eof |-> FALSE, protos |-> <<>>, torn |-> FALSE]
    /\ obs = NoObs
    /\ builder = Spawned(filters)
    /\ host = Started
    /\ pipes = NoPipes

(***************************************************************************)
(* RTShark::read                                                           *)
(***************************************************************************)
\* the history is kept while no decode call has failed
Dirty == [calls |-> 0, somes |-> 0, closed |-> 0, clean |-> FALSE,
          eof |-> FALSE, protos |-> <<>>, torn |-> FALSE]

\* a decode call has failed inside the packet element the child is writing
Torn == [Dirty EXCEPT !.torn = TRUE]

\* an end of read() that never looks at the error channel
Finish_Silent(done) ==
    /\ pc' = "idle"
    /\ count' = 0
    /\ ret' = Ok(None)
    /\ stderr' = stderr
    /\ process' = IF done THEN None ELSE process

\* an end of read() that releases the handle whatever the polls found
Finish_ReleasesOnTimeout(done) ==
    /\ pc' = "idle"
    /\ count' = 0
    /\ process' = None
    /\ IF stderr # <<>>
       THEN ret' = ErrLine(Head(stderr)) /\ stderr' = Tail(stderr)
       ELSE ret' = Ok(None) /\ stderr' = stderr

\* an end of read() that returns the first line and discards the others
Finish_DrainsAll(done) ==
    /\ pc' = "idle"
    /\ count' = 0
    /\ IF done
       THEN /\ process' = None
            /\ IF stderr # <<>>
               THEN ret' = ErrLine(Head(stderr)) /\ stderr' = <<>>
               ELSE ret' = Ok(None) /\ stderr' = stderr
       ELSE /\ ret' = Ok(None)
            /\ UNCHANGED <<process, stderr>>

\* the end of read() once `done` is known, msg being Ok(None): release the
\* handle and read one line of the error channel
Finish(done) ==
    /\ pc' = "idle"
    /\ count' = 0
    /\ IF done
       THEN /\ process' = None
            /\ IF stderr # <<>>
               THEN ret' = ErrLine(Head(stderr)) /\ stderr' = Tail(stderr)
               ELSE ret' = Ok(None) /\ stderr' = stderr
       ELSE /\ ret' = Ok(None)
            /\ UNCHANGED <<process, stderr>>

\* a read() whose parse_xml goes on with the packet the call before returned
ReadCall_KeepsPacket ==
    /\ pc = "idle"
    /\ pc' = "parse"
    /\ packet' = IF ret.ok /\ ret.v # None THEN ret.v[1] ELSE PacketNew
    /\ protoname' = None
    /\ ret' = Pending
    /\ ev' = NoEvent
    /\ pre' = NoPre
    /\ origin' = <<>>
    /\ hist' = IF hist.clean /\ ~hist.eof
               THEN [hist EXCEPT !.calls = @ + 1] ELSE hist
    /\ obs' = [obs EXCEPT !.polls = 0, !.kill = NoKill]
    /\ UNCHANGED <<gen, child, stderr, process, filters, count, builder, host,
                   pipes>>

\* read() starts parse_xml: a new packet and no protocol context
ReadCall ==
    /\ pc = "idle"
    /\ pc' = "parse"
    /\ packet' = PacketNew
    /\ protoname' = None
    /\ ret' = Pending
    /\ ev' = NoEvent
    /\ pre' = NoPre
    /\ origin' = <<>>
    /\ hist' = IF hist.clean /\ ~hist.eof
               THEN [hist EXCEPT !.calls = @ + 1] ELSE hist
    /\ obs' = [obs EXCEPT !.polls = 0, !.kill = NoKill]
    /\ UNCHANGED <<gen, child, stderr, process, filters, count, builder, host,
                   pipes>>

\* what the caller has seen once read() returned r at the end of the stream
Seen(o, r) ==
    [o EXCEPT !.none = @ \/ r = Ok(None),
              !.errs = IF r.ok THEN @ ELSE @ + 1]

\* the history after event e made the decode call return r (None: no
\* return); an error is returned for a tag inside a packet element, which
\* is torn from then on, until the next packet element starts
HistAfter(e, r) ==
    LET h1 == IF e.type = "Start" /\ e.tag.elem = "packet"
              THEN [hist EXCEPT !.protos = <<>>]
              ELSE IF /\ e.type = "Start" /\ e.tag.elem = "proto"
                      /\ e.tag.name # None
                      /\ ~ignored_protocols(e.tag.name[1])
              THEN [hist EXCEPT !.protos = Append(@, e.tag.name[1])]
              ELSE hist
        h2 == IF e.type = "End" /\ e.tag.elem = "packet"
              THEN [h1 EXCEPT !.closed = @ + 1] ELSE h1
    IN  IF r # None /\ ~r[1].ok THEN Torn
        ELSE IF ~hist.clean
        THEN IF e.type = "Start" /\ e.tag.elem = "packet" THEN Dirty ELSE hist
        ELSE IF r = None THEN h2
        ELSE IF r[1].v = None THEN [h2 EXCEPT !.eof = TRUE]
        ELSE [h2 EXCEPT !.somes = @ + 1]

\* a read() that, when the decoder fails, returns a line of the diagnostics
\* in place of the decoder's error
Returned_DrainsOnErr(msg) ==
    IF msg.ok /\ msg.v = None
    THEN IF process = None
         THEN /\ Finish(TRUE)
              /\ obs' = Seen(obs, ret')
         ELSE /\ pc' = "poll"
              /\ count' = POLLS
              /\ UNCHANGED <<ret, process, stderr, obs>>
    ELSE /\ pc' = "idle"
         /\ IF ~msg.ok /\ stderr # <<>>
            THEN ret' = ErrLine(Head(stderr)) /\ stderr' = Tail(stderr)
            ELSE ret' = msg /\ stderr' = stderr
         /\ UNCHANGED <<count, process, obs>>

\* what read() does with the result msg of parse_xml: Ok(None) starts the
\* exit polls (or ends at once when the handle is released), anything else is
\* returned as it is
Returned(msg) ==
    IF msg.ok /\ msg.v = None
    THEN IF process = None
         THEN /\ Finish(TRUE)
              /\ obs' = Seen(obs, ret')
         ELSE /\ pc' = "poll"
              /\ count' = POLLS
              /\ UNCHANGED <<ret, process, stderr, obs>>
    ELSE /\ pc' = "idle"
         /\ ret' = msg
         /\ UNCHANGED <<count, process, stderr, obs>>

Delivered(e, g, st) ==
    /\ pc = "parse"
    /\ gen' = g
    /\ ev' = e
    /\ pre' = IF e.type = "Eof" THEN NoPre
              ELSE [packet |-> packet, protoname |-> protoname]
    /\ origin' = IF e.type = "Eof" THEN origin
                 ELSE IF Len(st.packet.layers) > Len(packet.layers)
                 THEN Append(origin, e.tag.elem) ELSE origin
    /\ hist' = HistAfter(e, st.ret)
    /\ UNCHANGED <<child, filters, builder, host, pipes>>
    /\ IF st.ret = None
       THEN /\ packet' = st.packet
            /\ protoname' = st.protoname
            /\ UNCHANGED <<pc, ret, count, process, stderr, obs>>
       ELSE /\ packet' = PacketNew
            /\ protoname' = None
            /\ Returned(st.ret[1])

\* the reader delivers event e to the loop of parse_xml, the child moving to g
Deliver(e, g) == Delivered(e, g, ParseEvent(e, packet, protoname, filters))

Writing == ~gen.ended /\ child = "running"

InPacket == Top(gen.open) \in {"packet", "proto", "field"}

Opened(elem) == [gen EXCEPT !.open = Append(@, elem), !.tags = @ + 1]

\* <pdml>, <packet>, <proto ...> and <field ...> with children
StartTag ==
    /\ Writing
    /\ \/ /\ gen.open = <<>> /\ gen.pkts = 0
          /\ Deliver(Event("Start", ElemTag("pdml")),
                     [gen EXCEPT !.open = <<"pdml">>])
       \/ /\ Top(gen.open) = "pdml" /\ gen.pkts < MaxPackets
          /\ Deliver(Event("Start", ElemTag("packet")),
                     [gen EXCEPT !.open = Append(@, "packet"),
                                 !.pkts = @ + 1, !.tags = 0])
       \/ /\ Top(gen.open) = "packet" /\ gen.tags < MaxTags
          /\ \E t \in ProtoTags : Deliver(Event("Start", t), Opened("proto"))
       \/ /\ InPacket /\ gen.tags < MaxTags
          /\ FieldDepth(gen.open) < MaxDepth
          /\ \E t \in FieldTags : Deliver(Event("Start", t), Opened("field"))

\* <field ... />
EmptyTag ==
    /\ Writing
    /\ InPacket /\ gen.tags < MaxTags
    /\ \E t \in FieldTags :
          Deliver(Event("Empty", t), [gen EXCEPT !.tags = @ + 1])

\* </field>, </proto>, </packet>, </pdml>
CloseTag ==
    /\ Writing
    /\ Top(gen.open) \in {"pdml", "packet", "proto", "field"}
    /\ Deliver(Event("End", ElemTag(Top(gen.open))),
               [gen EXCEPT !.open = IF Top(gen.open) = "pdml"
                                    THEN <<"end">> ELSE Pop(gen.open)])

\* markup the reader rejects
XmlError ==
    /\ Writing
    /\ InPacket /\ gen.tags < MaxTags
    /\ Deliver(Event("Error", NoTag), [gen EXCEPT !.tags = @ + 1])

\* an end of the output at which parse_xml returns the packet it has begun
EofEvent_ReturnsPartial ==
    /\ Delivered(Event("Eof", NoTag), Ended,
                 Step(packet, protoname,
                      Some(IF packet.layers = <<>> THEN Ok(None)
                           ELSE Ok(Some(packet)))))

\* the reader finds the end of the child's output
EofEvent ==
    /\ Deliver(Event("Eof", NoTag), Ended)

\* exit polls that take the child for exited when they run out
Poll_ReleasesOnTimeout ==
    /\ pc = "poll"
    /\ UNCHANGED <<gen, filters, packet, protoname, ev, pre, origin, hist,
                   builder, host, pipes>>
    /\ IF child = "exited"
       THEN /\ child' = "reaped"
            /\ Finish(TRUE)
            /\ obs' = Seen([obs EXCEPT !.polls = @ + 1], ret')
       ELSE IF count = 1
       THEN /\ child' = child
            /\ Finish(TRUE)
            /\ obs' = Seen([obs EXCEPT !.polls = @ + 1], ret')
       ELSE /\ count' = count - 1
            /\ obs' = [obs EXCEPT !.polls = @ + 1]
            /\ UNCHANGED <<child, pc, ret, process, stderr>>

\* exit polls whose last try_wait collects the exit status of a child that
\* has exited and still takes the child for running
Poll_MissesExit ==
    /\ pc = "poll"
    /\ UNCHANGED <<gen, filters, packet, protoname, ev, pre, origin, hist,
                   builder, host, pipes>>
    /\ IF child = "exited" /\ count > 1
       THEN /\ child' = "reaped"
            /\ Finish(TRUE)
            /\ obs' = Seen([obs EXCEPT !.polls = @ + 1], ret')
       ELSE IF count = 1
       THEN /\ child' = IF child = "exited" THEN "reaped" ELSE child
            /\ Finish(FALSE)
            /\ obs' = Seen([obs EXCEPT !.polls = @ + 1], ret')
       ELSE /\ count' = count - 1
            /\ obs' = [obs EXCEPT !.polls = @ + 1]
            /\ UNCHANGED <<child, pc, ret, process, stderr>>

\* one turn of the loop of try_wait_has_exited, and the rest of read() when
\* the loop ends; a try_wait that finds the child exited reaps it
Poll ==
    /\ pc = "poll"
    /\ UNCHANGED <<gen, filters, packet, protoname, ev, pre, origin, hist,
                   builder, host, pipes>>
    /\ IF child = "exited"
       THEN /\ child' = "reaped"
            /\ Finish(TRUE)
            /\ obs' = Seen([obs EXCEPT !.polls = @ + 1], ret')
       ELSE IF count = 1
       THEN /\ child' = child
            /\ Finish(FALSE)
            /\ obs' = Seen([obs EXCEPT !.polls = @ + 1], ret')
       ELSE /\ count' = count - 1
            /\ obs' = [obs EXCEPT !.polls = @ + 1]
            /\ UNCHANGED <<child, pc, ret, process, stderr>>

(***************************************************************************)
(* The child process, RTShark::kill and Drop                               *)
(***************************************************************************)
\* the lines on the error channel once the running child has written more
MoreLines == {SubSeq(ErrLines, 1, n) : n \in Len(stderr)..MaxErrLines}

\* the child exits after its output has ended, leaving lines on its error
\* channel; an exit while parse_xml runs is seen by the session as an exit
\* before the first poll
ChildExit ==
    /\ gen.ended
    /\ child = "running"
    /\ pc # "parse"
    /\ child' = "exited"
    /\ stderr' \in MoreLines
    /\ obs' = [obs EXCEPT !.written = Len(stderr')]
    /\ UNCHANGED <<gen, process, filters, pc, packet, protoname, count, ret,
                   ev, pre, origin, hist, builder, host, pipes>>

\* the running child writes a line on its error channel; nothing reads the
\* channel before the exit polls of a read(), so the line is written there
ChildWrites ==
    /\ child = "running"
    /\ pc = "poll"
    /\ Len(stderr) < MaxErrLines
    /\ stderr' = Append(stderr, ErrLines[Len(stderr) + 1])
    /\ obs' = [obs EXCEPT !.written = Len(stderr')]
    /\ UNCHANGED <<gen, child, process, filters, pc, packet, protoname, count,
                   ret, ev, pre, origin, hist, builder, host, pipes>>

\* what kill() leaves: the handle, the child, and whether it sent the signal
\* and waited
KillResult(proc, ch, signalled, waited) ==
    [process |-> proc, child |-> ch, signalled |-> signalled, waited |-> waited]

\* a kill() that gives up, keeping the handle, when the signal or the wait
\* reports an error
KillFlow_GivesUp(proc, ch, tw, sg, wt) ==
    IF proc = None THEN KillResult(None, ch, FALSE, FALSE)
    ELSE IF tw = "ok" /\ ch # "running"
    THEN KillResult(None, "reaped", FALSE, FALSE)
    ELSE IF sg = "err" THEN KillResult(proc, ch, TRUE, FALSE)
    ELSE IF wt = "err" THEN KillResult(proc, "exited", TRUE, TRUE)
    ELSE KillResult(None, "reaped", TRUE, TRUE)

\* a kill() that signals again a child it has released
KillFlow_SignalsAgain(proc, ch, tw, sg, wt) ==
    IF tw = "ok" /\ ch # "running" /\ proc # None
    THEN KillResult(None, "reaped", FALSE, FALSE)
    ELSE KillResult(None, "reaped", TRUE, TRUE)

\* a kill() that releases the handle of a running child without a signal
KillFlow_Releases(proc, ch, tw, sg, wt) ==
    IF proc = None THEN KillResult(None, ch, FALSE, FALSE)
    ELSE IF tw = "ok" /\ ch # "running"
    THEN KillResult(None, "reaped", FALSE, FALSE)
    ELSE KillResult(None, ch, FALSE, FALSE)

\* a kill() that signals whatever handle it holds, without the check
KillFlow_NoCheck(proc, ch, tw, sg, wt) ==
    IF proc = None THEN KillResult(None, ch, FALSE, FALSE)
    ELSE KillResult(None, "reaped", TRUE, TRUE)

\* kill() on handle proc with the child in state ch, the calls try_wait, kill
\* and wait reporting tw, sg and wt ("ok" or "err"): without a handle nothing
\* is done; a try_wait that finds the child exited reaps it; otherwise the
\* signal is sent and the child waited for, what the two calls report being
\* printed only; the handle is released in every case
KillFlow(proc, ch, tw, sg, wt) ==
    IF proc = None THEN KillResult(None, ch, FALSE, FALSE)
    ELSE IF tw = "ok" /\ ch # "running"
    THEN KillResult(None, "reaped", FALSE, FALSE)
    ELSE KillResult(None, "reaped", TRUE, TRUE)

\* what try_wait, kill and wait report: no error, or an error of one of them
Reports ==
    { <<"ok", "ok", "ok">>, <<"err", "ok", "ok">>, <<"ok", "err", "ok">>,
      <<"ok", "ok", "err">> }

\* what the last kill() found and did, tw being what its try_wait reported
KillSeen(k, tw) ==
    [found |-> IF process = None THEN "released" ELSE child,
     check |-> IF process = None THEN "" ELSE tw,
     signalled |-> k.signalled, waited |-> k.waited]

\* the session after a kill() that left k: a child that was running has
\* closed its output and left its last lines
Killed(k, tw) ==
    /\ process' = k.process
    /\ child' = k.child
    /\ IF child = "running" /\ k.child # "running"
       THEN gen' = Ended /\ stderr' \in MoreLines
       ELSE UNCHANGED <<gen, stderr>>
    /\ obs' = [obs EXCEPT !.kill = KillSeen(k, tw),
                          !.written = IF child = "running" THEN Len(stderr')
                                      ELSE @]
    /\ UNCHANGED <<filters, pc, packet, protoname, count, ret, ev, pre,
                   origin, hist, builder, host, pipes>>

\* kill()
Kill ==
    /\ pc = "idle"
    /\ \E r \in Reports :
          Killed(KillFlow(process, child, r[1], r[2], r[3]), r[1])

\* the session is discarded: Drop calls kill() and the fields are gone
Dropped(k, tw) ==
    /\ pc' = "dropped"
    /\ process' = k.process
    /\ child' = k.child
    /\ gen' = Ended
    /\ stderr' = <<>>
    /\ ret' = Pending
    /\ ev' = NoEvent
    /\ pre' = NoPre
    /\ origin' = <<>>
    /\ hist' = Dirty
    /\ obs' = [NoObs EXCEPT !.kill = KillSeen(k, tw)]
    /\ UNCHANGED <<filters, packet, protoname, count, builder, host, pipes>>

Drop ==
    /\ pc = "idle"
    /\ \E r \in Reports :
          Dropped(KillFlow(process, child, r[1], r[2], r[3]), r[1])

Next ==
    \/ ReadCall
    \/ StartTag
    \/ EmptyTag
    \/ CloseTag
    \/ XmlError
    \/ EofEvent
    \/ Poll
    \/ ChildExit
    \/ ChildWrites
    \/ Kill
    \/ Drop

Spec == Init /\ [][Next]_vars

(***************************************************************************)
(* SpecSpawn: a builder is prepared and spawn() is called on it            *)
(***************************************************************************)
NoSession ==
    /\ gen = [open |-> <<>>, pkts |-> 0, tags |-> 0, ended |-> FALSE]
    /\ child = "none"
    /\ stderr = <<>>
    /\ process = None
    /\ filters = <<>>
    /\ packet = PacketNew
    /\ protoname = None
    /\ count = 0
    /\ ret = Pending
    /\ ev = NoEvent
    /\ pre = NoPre
    /\ origin = <<>>
    /\ hist = Dirty
    /\ obs = NoObs

\* RTSharkBuilder::builder().input_path(path), on any machine
InitSpawn ==
    /\ pc = "builder"
    /\ \E path \in Paths : builder = BuilderReady(path)
    /\ \E files \in [Paths -> Answers], tshark \in Answers :
          host = Host(files, tshark, 0)
    /\ pipes = NoPipes
    /\ NoSession

Built(b) ==
    /\ pc = "builder"
    /\ builder' = b
    /\ UNCHANGED <<gen, child, stderr, process, filters, pc, packet, protoname,
                   count, ret, ev, pre, origin, hist, obs, host, pipes>>

\* RTSharkBuilderReady::input_path
InputPath ==
    /\ Len(builder.input_path) < MaxInputs
    /\ \E path \in Paths :
          Built([builder EXCEPT !.input_path = Append(@, path)])

\* RTSharkBuilderReady::live_capture
LiveCapture ==
    /\ ~builder.live_capture
    /\ Built([builder EXCEPT !.live_capture = TRUE])

\* RTSharkBuilderReady::metadata_blacklist
MetadataBlacklist ==
    /\ Append(builder.metadata_blacklist, IP_F) \in FilterSets
    /\ Built([builder EXCEPT !.metadata_blacklist = Append(@, IP_F)])

\* spawn() returns the error e: no session
SpawnFailed(e, execs) ==
    /\ pc' = "failed"
    /\ ret' = e
    /\ host' = [host EXCEPT !.execs = @ + execs]
    /\ UNCHANGED <<gen, child, stderr, process, filters, packet, protoname,
                   count, ev, pre, origin, hist, obs, builder, pipes>>

\* RTShark::new on the started child
SpawnedSession(proc) ==
    /\ pc' = "idle"
    /\ process' = Some(proc)
    /\ child' = "running"
    /\ filters' = builder.metadata_blacklist
    /\ host' = [host EXCEPT !.execs = @ + 1]
    /\ UNCHANGED <<gen, stderr, packet, protoname, count, ret, ev, pre, origin,
                   hist, obs, builder, pipes>>

SpawnWith(args) ==
    IF ~args.ok THEN SpawnFailed(args, 0)
    ELSE IF ~spawn_tshark(host, args.v \o <<"-Tpdml", "-l">>).ok
    THEN SpawnFailed(spawn_tshark(host, args.v \o <<"-Tpdml", "-l">>), 1)
    ELSE SpawnedSession(spawn_tshark(host, args.v \o <<"-Tpdml", "-l">>).v)

\* RTSharkBuilderReady::spawn
Spawn ==
    /\ pc = "builder"
    /\ SpawnWith(prepare_args(builder, host.files))

NextSpawn ==
    \/ InputPath
    \/ LiveCapture
    \/ MetadataBlacklist
    \/ Spawn

SpecSpawn == InitSpawn /\ [][NextSpawn]_vars

(***************************************************************************)
(* SpecPacket: a Packet is built with push and push_if_not_exist           *)
(***************************************************************************)
MaxLayers == 4

\* let packet = Packet::new(), nothing called yet
InitPacket ==
    /\ pc = "packet"
    /\ builder = Spawned(<<>>)
    /\ host = Started
    /\ pipes = NoPipes
    /\ NoSession

\* the call op(name) has changed the packet to p
Called(op, name, p) ==
    /\ pc = "packet"
    /\ Len(packet.layers) < MaxLayers
    /\ packet' = p
    /\ ev' = Event(op, ProtoTag(Some(name)))
    /\ pre' = [packet |-> packet, protoname |-> None]
    /\ origin' = IF Len(p.layers) > Len(packet.layers)
                 THEN Append(origin, op) ELSE origin
    /\ UNCHANGED <<gen, child, stderr, process, filters, pc, protoname, count,
                   ret, hist, obs, builder, host, pipes>>

\* packet.push(name)
Push == \E name \in {IP, TCP} : Called("push", name, PacketPush(packet, name))

\* packet.push_if_not_exist(name)
PushIfNotExist ==
    \E name \in {IP, TCP} :
        Called("push_if_not_exist", name, PacketPushIfNotExist(packet, name))

NextPacket ==
    \/ Push
    \/ PushIfNotExist

SpecPacket == InitPacket /\ [][NextPacket]_vars

(***************************************************************************)
(* SpecField: parse_xml reads one field tag, drawn from every combination  *)
(* of attributes, in each protocol context                                 *)
(***************************************************************************)
BAD == <<BadUtf8>>

TWO == <<"2">>

NAME == <<"n">>

DigitChars == <<"0", "1", "2", "3", "4", "5", "6", "7", "8", "9">>

RECURSIVE DigitsOf(_)
\* the decimal digits of n >= 0
DigitsOf(n) ==
    IF n < 10 THEN <<DigitChars[n + 1]>>
    ELSE DigitsOf(n \div 10) \o <<DigitChars[(n % 10) + 1]>>

RECURSIVE ZeroPad(_, _)
ZeroPad(s, width) == IF Len(s) >= width THEN s ELSE ZeroPad(<<"0">> \o s, width)

\* the text tshark prints for s seconds and n nanoseconds: "%d.%09d"
FormatTimestamp(secs, nanos) ==
    (IF secs < 0 THEN <<"-">> \o DigitsOf(0 - secs) ELSE DigitsOf(secs))
        \o <<".">> \o ZeroPad(DigitsOf(nanos), 9)

TsSecs == {0, 59, 60, 1652011560, 0 - 1}

TsNanos == {0, 999, 1000, 275852000, 999999999, 1000000000, 1999999999,
            2000000000}

\* "1652011560.275852000"
TS_EXAMPLE ==
    <<"1", "6", "5", "2", "0", "1", "1", "5", "6", "0", ".",
      "2", "7", "5", "8", "5", "2", "0", "0", "0">>

\* timestamps tshark does not print
TsMalformed ==
    { <<"1">>, <<"1", ".">>, <<".", "5">>, <<"x", ".", "5">>, <<"1", ".", "x">>,
      <<"+", "1", ".", "5">>, <<"1", ".", "-", "5">>, <<"1", ".", "5", ".", "0">>,
      <<"1", ".", "4", "2", "9", "4", "9", "6", "7", "2", "9", "6">> }

TimestampTexts ==
    {FormatTimestamp(sc, ns) : sc \in TsSecs, ns \in TsNanos}
        \cup {TS_EXAMPLE} \cup TsMalformed

TimestampTags ==
    {Tag("field", Some(TIMESTAMP), sh, Some(v), None, None, None) :
        sh \in {None, Some(ONE)}, v \in TimestampTexts}

AttrNames ==
    {None, Some(BAD), Some(<<>>), Some(WS_E), Some(IP_S), Some(IP_F),
     Some(TCP_P), Some(TIMESTAMP)}

AttrShows == {None, Some(<<>>), Some(ONE), Some(BAD)}

AttrValues == {None, Some(<<>>), Some(ONE), Some(TWO), Some(BAD)}

AttrShownames == {None, Some(NAME), Some(ONE), Some(BAD)}

AttrNumbers ==
    {None, Some(<<>>), Some(BAD), Some(<<"1", "x">>),
     Some(<<"1", "2">>), Some(<<"+", "7">>), Some(<<"-", "1">>),
     Some(<<"4", "2", "9", "4", "9", "6", "7", "2", "9", "5">>),
     Some(<<"4", "2", "9", "4", "9", "6", "7", "2", "9", "6">>)}

AllFieldTags ==
    {Tag("field", n, sh, v, sn, None, None) :
        n \in AttrNames, sh \in AttrShows, v \in AttrValues, sn \in AttrShownames}
    \cup {Tag("field", Some(IP_S), Some(ONE), None, None, ps, sz) :
            ps \in AttrNumbers, sz \in AttrNumbers}
    \cup TimestampTags

\* the states of parse_xml in which the tag is read: at the start of a call,
\* inside <proto name="geninfo">, inside a protocol, inside the fake wrapper
\* with and without a layer before it, after </proto>, and inside a
\* protocol after its field ip.s with the value "0"
FieldContexts ==
    { [packet |-> PacketNew, protoname |-> None, open |-> <<"pdml", "packet">>],
      [packet |-> PacketNew, protoname |-> Some(GENINFO),
       open |-> <<"pdml", "packet", "proto">>],
      [packet |-> PacketPush(PacketNew, IP), protoname |-> Some(IP),
       open |-> <<"pdml", "packet", "proto">>],
      [packet |-> PacketPush(PacketPush(PacketNew, IP), TCP),
       protoname |-> Some(TCP), open |-> <<"pdml", "packet", "proto">>],
      [packet |-> PacketNew, protoname |-> Some(FAKE_FIELD_WRAPPER),
       open |-> <<"pdml", "packet", "proto">>],
      [packet |-> PacketPush(PacketNew, IP),
       protoname |-> Some(FAKE_FIELD_WRAPPER),
       open |-> <<"pdml", "packet", "proto">>],
      [packet |-> PacketPush(PacketNew, IP), protoname |-> None,
       open |-> <<"pdml", "packet">>],
      [packet |-> PacketAddToLast(PacketPush(PacketNew, IP),
                      MetadataNew(IP_S, <<"0">>, None, None, None)),
       protoname |-> Some(IP), open |-> <<"pdml", "packet", "proto">>] }

\* the blacklists of SpecField: a name of the general information as well
FieldFilterSets == FilterSets \cup { <<TIMESTAMP>> }

InitField ==
    /\ \E c \in FieldContexts :
          /\ gen = [open |-> c.open, pkts |-> 1, tags |-> Len(c.packet.layers),
                    ended |-> FALSE]
          /\ packet = c.packet
          /\ protoname = c.protoname
          /\ origin = [i \in 1..Len(c.packet.layers) |-> "proto"]
    /\ child = "running"
    /\ stderr = <<>>
    /\ process = Some("child")
    /\ filters \in FieldFilterSets
    /\ pc = "parse"
    /\ count = 0
    /\ ret = Pending
    /\ ev = NoEvent
    /\ pre = NoPre
    /\ hist = Dirty
    /\ obs = NoObs
    /\ builder = Spawned(filters)
    /\ host = Started
    /\ pipes = NoPipes

\* <field ...> with children
FieldStart ==
    /\ ev = NoEvent
    /\ \E t \in AllFieldTags : Deliver(Event("Start", t), Opened("field"))

\* <field ... />
FieldEmpty ==
    /\ ev = NoEvent
    /\ \E t \in AllFieldTags :
          Deliver(Event("Empty", t), [gen EXCEPT !.tags = @ + 1])

NextField ==
    \/ FieldStart
    \/ FieldEmpty

SpecField == InitField /\ [][NextField]_vars

(***************************************************************************)
(* SpecPipes: a session whose child writes to two pipes of bounded size:   *)
(* the report on its standard output, which parse_xml reads, and lines on  *)
(* its standard error, which read() reads only once the child is taken for *)
(* exited; a write to a full pipe holds the child until there is room      *)
(***************************************************************************)
\* the packet elements that fit in the pipe of the report
OutCap == 1

\* the lines that fit in the pipe of the diagnostics
ErrCap == 1

InitPipes ==
    /\ gen = [open |-> <<>>, pkts |-> 0, tags |-> 0, ended |-> FALSE]
    /\ child = "running"
    /\ stderr = <<>>
    /\ process = Some("child")
    /\ filters = <<>>
    /\ pc = "idle"
    /\ packet = PacketNew
    /\ protoname = None
    /\ count = 0
    /\ ret = Pending
    /\ ev = NoEvent
    /\ pre = NoPre
    /\ origin = <<>>
    /\ hist = Dirty
    /\ obs = NoObs
    /\ builder = Spawned(<<>>)
    /\ host = Started
    /\ pipes = NoPipes

\* the packet decoded from a packet element of the report
PipePacket == PacketPush(PacketNew, IP)

\* the child writes a packet element on its standard output, or is held
\* when the pipe is full; a held write ends once the pipe has room
WritesReport ==
    /\ child = "running"
    /\ ~gen.ended
    /\ gen.pkts < MaxPackets
    /\ IF pipes.out < OutCap
       THEN /\ pipes.op \in {"none", "out"}
            /\ pipes' = [pipes EXCEPT !.out = @ + 1, !.op = "none"]
            /\ gen' = [gen EXCEPT !.pkts = @ + 1]
       ELSE /\ pipes.op = "none"
            /\ pipes' = [pipes EXCEPT !.op = "out"]
            /\ gen' = gen
    /\ UNCHANGED <<child, stderr, process, filters, pc, packet, protoname,
                   count, ret, ev, pre, origin, hist, obs, builder, host>>

\* the child writes a line on its standard error, or is held when the pipe
\* is full
WritesDiagnostic ==
    /\ child = "running"
    /\ obs.written < MaxErrLines
    /\ IF Len(stderr) < ErrCap
       THEN /\ pipes.op \in {"none", "err"}
            /\ pipes' = [pipes EXCEPT !.op = "none"]
            /\ stderr' = Append(stderr, ErrLines[obs.written + 1])
            /\ obs' = [obs EXCEPT !.written = @ + 1]
       ELSE /\ pipes.op = "none"
            /\ pipes' = [pipes EXCEPT !.op = "err"]
            /\ UNCHANGED <<stderr, obs>>
    /\ UNCHANGED <<gen, child, process, filters, pc, packet, protoname, count,
                   ret, ev, pre, origin, hist, builder, host>>

\* the child closes its standard output and runs on
ClosesReport ==
    /\ child = "running"
    /\ ~gen.ended
    /\ pipes.op = "none"
    /\ gen' = [gen EXCEPT !.ended = TRUE]
    /\ UNCHANGED <<child, stderr, process, filters, pc, packet, protoname,
                   count, ret, ev, pre, origin, hist, obs, builder, host,
                   pipes>>

\* the child, not held by a write, exits with a status: both pipes are
\* closed on its side
Exits ==
    /\ child = "running"
    /\ pipes.op = "none"
    /\ child' = "exited"
    /\ gen' = [gen EXCEPT !.ended = TRUE]
    /\ \E st \in {"success", "failure"} :
          pipes' = [pipes EXCEPT !.status = st]
    /\ UNCHANGED <<stderr, process, filters, pc, packet, protoname, count,
                   ret, ev, pre, origin, hist, obs, builder, host>>

\* parse_xml reads a packet element from the pipe and returns msg
PipeReturned(msg) ==
    /\ pipes' = [pipes EXCEPT !.out = @ - 1]
    /\ ev' = IF msg.ok THEN Event("End", ElemTag("packet"))
             ELSE Event("Error", NoTag)
    /\ Returned(msg)
    /\ UNCHANGED <<gen, child, filters, packet, protoname, pre, origin, hist,
                   builder, host>>

\* parse_xml, waiting for bytes of the report, gets a packet element: it
\* returns the packet, or an error when the element is malformed
PipeDecode ==
    /\ pc = "parse"
    /\ pipes.out > 0
    /\ \E msg \in {Ok(Some(PipePacket)), Err("InvalidData")} :
          PipeReturned(msg)

\* the pipe of the report is empty and closed on the child's side: parse_xml
\* reads Event::Eof and returns Ok(None)
PipeEof ==
    /\ pc = "parse"
    /\ pipes.out = 0
    /\ gen.ended
    /\ ev' = Event("Eof", NoTag)
    /\ Returned(Ok(None))
    /\ UNCHANGED <<gen, child, filters, packet, protoname, pre, origin, hist,
                   builder, host, pipes>>

NextPipes ==
    \/ ReadCall
    \/ PipeDecode
    \/ PipeEof
    \/ Poll
    \/ WritesReport
    \/ WritesDiagnostic
    \/ ClosesReport
    \/ Exits

SpecPipes == InitPipes /\ [][NextPipes]_vars

(***************************************************************************)
(* SpecBatch: batch() is called on a builder; the child it starts writes   *)
(* to the two pipes as in SpecPipes while batch() waits for its exit       *)
(***************************************************************************)
\* Ok(())
OkUnit == Ok("()")

InitBatch ==
    /\ pc = "builder"
    /\ \E path \in Paths : builder = BuilderReady(path)
    /\ \E files \in [Paths -> Answers], tshark \in Answers :
          host = Host(files, tshark, 0)
    /\ pipes = NoPipes
    /\ NoSession

\* batch() returns the error e of prepare_args or spawn_tshark
BatchFailed(e, execs) ==
    /\ pc' = "failed"
    /\ ret' = e
    /\ host' = [host EXCEPT !.execs = @ + execs]
    /\ UNCHANGED child

\* batch() has started the child and calls wait() on it
BatchStarted ==
    /\ pc' = "wait"
    /\ child' = "running"
    /\ host' = [host EXCEPT !.execs = @ + 1]
    /\ UNCHANGED ret

BatchWith(args) ==
    IF ~args.ok THEN BatchFailed(args, 0)
    ELSE IF ~spawn_tshark(host, args.v).ok
    THEN BatchFailed(spawn_tshark(host, args.v), 1)
    ELSE BatchStarted

\* batch(), up to the call of wait()
Batch ==
    /\ pc = "builder"
    /\ BatchWith(prepare_args(builder, host.files))
    /\ UNCHANGED <<gen, stderr, process, filters, packet, protoname, count,
                   ev, pre, origin, hist, obs, builder, pipes>>

\* what batch() returns once wait() has returned status: for a failure the
\* first line of the standard error when there is one, else Ok(())
BatchResult(status, lines) ==
    IF status # "success" /\ lines # <<>> THEN ErrLine(Head(lines))
    ELSE OkUnit

\* wait() returns when the child has exited, and batch() returns
BatchWait ==
    /\ pc = "wait"
    /\ child = "exited"
    /\ child' = "reaped"
    /\ pc' = "done"
    /\ ret' = BatchResult(pipes.status, stderr)
    /\ stderr' = IF pipes.status # "success" /\ stderr # <<>>
                 THEN Tail(stderr) ELSE stderr
    /\ UNCHANGED <<gen, process, filters, packet, protoname, count, ev, pre,
                   origin, hist, obs, builder, host, pipes>>

NextBatch ==
    \/ Batch
    \/ BatchWait
    \/ WritesReport
    \/ WritesDiagnostic
    \/ ClosesReport
    \/ Exits

SpecBatch == InitBatch /\ [][NextBatch]_vars

(***************************************************************************)
(* Properties                                                              *)
(***************************************************************************)
\* the last event read was a field tag
FieldEvent == ev.type \in {"Start", "Empty"} /\ ev.tag.elem = "field"

\* the attribute is present and its text is UTF-8
Readable(a) == a # None /\ BadUtf8 \notin Chars(a[1])

InFilters(name) == \E i \in 1..Len(filters) : filters[i] = name

\* the field is decoded: it is not one of those rtshark_build_metadata skips
Decoded(tag) ==
    /\ Readable(tag.name)
    /\ tag.name[1] # <<>>
    /\ ~StartsWith(tag.name[1], WS_PREFIX)
    /\ ~InFilters(tag.name[1])

NoValue(tag) == tag.show = None /\ tag.value = None /\ tag.showname = None

RECURSIVE MetadataCount(_)
MetadataCount(layers) ==
    IF layers = <<>> THEN 0
    ELSE Len(Head(layers).metadata) + MetadataCount(Tail(layers))

RECURSIVE ProtoNames(_, _)
\* the names of the layers that protocol tags created, in order
ProtoNames(layers, org) ==
    IF layers = <<>> THEN <<>>
    ELSE (IF Head(org) = "proto" THEN <<Head(layers).name>> ELSE <<>>)
             \o ProtoNames(Tail(layers), Tail(org))

\* the decode call goes on after the field and one Metadata more is held
Attached ==
    /\ FieldEvent
    /\ pc = "parse"
    /\ MetadataCount(packet.layers) = MetadataCount(pre.packet.layers) + 1

LastLayer(p) == p.layers[Len(p.layers)]

NewMetadata == LastLayer(packet).metadata[Len(LastLayer(packet).metadata)]

\* the call has returned an error and no packet
ErrReturned == pc = "idle" /\ ~ret.ok /\ ret.kind # "Pending"

\* the packet under construction, or the one the call returned
CurPacket ==
    IF pc = "parse" THEN packet
    ELSE IF ret.ok /\ ret.v # None THEN ret.v[1]
    ELSE PacketNew

\* C1: while no decode call has failed, the k-th call that returns a packet
\* returns it at the close of the k-th packet element, holding the layers of
\* that element's protocol tags in order; Ok(None) is returned only at the
\* end of the stream, by the call that follows the last packet
C1_PacketsInOrderThenNone ==
    hist.clean =>
        /\ pc = "idle" /\ ret.ok /\ ret.v # None =>
              /\ hist.somes = hist.closed
              /\ hist.calls = hist.somes
              /\ ProtoNames(ret.v[1].layers, origin) = hist.protos
        /\ hist.eof => hist.calls = hist.closed + 1 /\ hist.somes = hist.closed
        /\ pc = "poll" \/ (pc = "idle" /\ ret = Ok(None)) => hist.eof
        /\ hist.somes <= hist.closed /\ hist.closed <= hist.somes + 1

\* MaxPackets packets were returned one after the other and the call after
\* the last one met the end of the stream
C1_Witness ==
    /\ hist.clean /\ hist.eof
    /\ hist.somes = MaxPackets /\ hist.calls = MaxPackets + 1
    /\ pc = "idle" /\ ret = Ok(None)

\* C2: a Metadata attached for a field holds as value() the show attribute
\* when there is one (empty or not), else the value attribute, else the
\* showname attribute, and as display() the showname attribute or None
C2_ValueSelection ==
    Attached =>
        /\ NewMetadata.name = ev.tag.name[1]
        /\ Readable(ev.tag.show) => MetadataValue(NewMetadata) = ev.tag.show[1]
        /\ ev.tag.show = None /\ Readable(ev.tag.value) =>
              MetadataValue(NewMetadata) = ev.tag.value[1]
        /\ ev.tag.show = None /\ ev.tag.value = None /\ Readable(ev.tag.showname) =>
              MetadataValue(NewMetadata) = ev.tag.showname[1]
        /\ Readable(ev.tag.showname) =>
              MetadataDisplay(NewMetadata) = Some(ev.tag.showname[1])
        /\ ev.tag.showname = None => MetadataDisplay(NewMetadata) = None

\* an empty show wins over a value and a showname
C2_Witness ==
    /\ Attached
    /\ ev.tag.show = Some(<<>>) /\ ev.tag.value = Some(ONE)
    /\ ev.tag.showname = Some(NAME)
    /\ MetadataValue(NewMetadata) = <<>>
    /\ MetadataDisplay(NewMetadata) = Some(NAME)

\* C3: raw_value() is the value attribute when the tag has one that differs
\* from value(), and value() otherwise: with show alone both are the show
\* text, with show and a different value attribute value() is the show text
\* and raw_value() the value attribute
C3_RawValue ==
    Attached =>
        /\ Readable(ev.tag.value) /\ ev.tag.value[1] # MetadataValue(NewMetadata) =>
              MetadataRawValue(NewMetadata) = ev.tag.value[1]
        /\ ~(Readable(ev.tag.value) /\ ev.tag.value[1] # MetadataValue(NewMetadata)) =>
              MetadataRawValue(NewMetadata) = MetadataValue(NewMetadata)
        /\ Readable(ev.tag.show) /\ ev.tag.value = None =>
              /\ MetadataValue(NewMetadata) = ev.tag.show[1]
              /\ MetadataRawValue(NewMetadata) = ev.tag.show[1]
        /\ Readable(ev.tag.show) /\ Readable(ev.tag.value)
                /\ ev.tag.show # ev.tag.value =>
              /\ MetadataValue(NewMetadata) = ev.tag.show[1]
              /\ MetadataRawValue(NewMetadata) = ev.tag.value[1]

\* show="1" value="2": value() is "1" and raw_value() is "2"
C3_Witness ==
    /\ Attached
    /\ ev.tag.show = Some(ONE) /\ ev.tag.value = Some(TWO)
    /\ MetadataValue(NewMetadata) = ONE
    /\ MetadataRawValue(NewMetadata) = TWO

\* C4, as the specification states it: a decoded field with a name and none
\* of show, value and showname makes the call return an error, whatever the
\* protocol context
C4_ErrInEveryContext ==
    FieldEvent /\ Decoded(ev.tag) /\ NoValue(ev.tag) => ErrReturned

\* C4, corrected: such a field makes the call return the InvalidInput error
\* inside a protocol, inside the fake wrapper and outside any protocol, and
\* inside the general information when it has children; a self-closing one
\* inside the general information is an error only when it is the timestamp
C4_ErrOutsideGeninfo ==
    FieldEvent /\ Decoded(ev.tag) /\ NoValue(ev.tag) =>
        IF ev.type = "Empty" /\ pre.protoname = Some(GENINFO)
        THEN IF ev.tag.name = Some(TIMESTAMP)
             THEN ErrReturned /\ ret.kind = "InvalidInput"
             ELSE pc = "parse" /\ packet = pre.packet
        ELSE ErrReturned /\ ret.kind = "InvalidInput"

\* a self-closing field of the general information without any of the three
\* attributes was read and the call goes on
C4_Witness ==
    /\ FieldEvent /\ ev.type = "Empty"
    /\ ev.tag.name = Some(IP_S) /\ NoValue(ev.tag)
    /\ pre.protoname = Some(GENINFO)
    /\ pc = "parse"

\* C5: a field tag without a name attribute makes the call return the
\* InvalidInput error and no packet, in every protocol context and with any
\* filters
C5_MissingName ==
    FieldEvent /\ ev.tag.name = None =>
        ErrReturned /\ ret.kind = "InvalidInput" /\ ret.v = <<>>

\* a nameless self-closing field inside the general information, with a
\* filter set
C5_Witness ==
    /\ FieldEvent /\ ev.type = "Empty" /\ ev.tag.name = None
    /\ pre.protoname = Some(GENINFO)
    /\ filters # <<>>
    /\ ErrReturned

\* C6, as the specification states it: two layers of the same name that
\* protocol tags created, with no such layer between them, have consecutive
\* indices
C6_ConsecutiveIndices ==
    \A i, j \in 1..Len(CurPacket.layers) :
        /\ i < j
        /\ CurPacket.layers[i].name = CurPacket.layers[j].name
        /\ origin[i] = "proto" /\ origin[j] = "proto"
        /\ \A k \in (i + 1)..(j - 1) :
              CurPacket.layers[k].name # CurPacket.layers[i].name
        => CurPacket.layers[j].index = CurPacket.layers[i].index + 1

\* C6, corrected: every protocol tag with a name appends a layer of its own,
\* even when a layer of that name exists, so two tags of the same name give
\* two layers with indices in tag order, consecutive when the second tag
\* reads right after the first layer; a field changes no layer but the last
\* one, so the earlier layer never receives a field of the later tag; and
\* layer_name returns the layer of that name with the lowest index
C6_DistinctLayers ==
    /\ ev.type = "Start" /\ ev.tag.elem = "proto" /\ Readable(ev.tag.name)
            /\ ~ignored_protocols(ev.tag.name[1]) =>
          /\ pc = "parse"
          /\ packet.layers =
                Append(pre.packet.layers,
                       LayerNew(ev.tag.name[1], Len(pre.packet.layers)))
    /\ \A i, j \in 1..Len(CurPacket.layers) :
          i < j => CurPacket.layers[i].index < CurPacket.layers[j].index
    /\ \A i \in 1..(Len(CurPacket.layers) - 1) :
          CurPacket.layers[i + 1].index = CurPacket.layers[i].index + 1
    /\ FieldEvent /\ pc = "parse" =>
          \A i \in 1..(Len(pre.packet.layers) - 1) :
              packet.layers[i] = pre.packet.layers[i]
    /\ \A i \in 1..Len(CurPacket.layers) :
          /\ PacketLayerName(CurPacket, CurPacket.layers[i].name) # None
          /\ PacketLayerName(CurPacket, CurPacket.layers[i].name)[1].index
                <= CurPacket.layers[i].index
          /\ PacketLayerName(CurPacket, CurPacket.layers[i].name)[1].name
                = CurPacket.layers[i].name

\* <proto name="ip"> with a field, then <proto name="ip"> again: two layers
\* at 0 and 1, the field in the first only, layer_name gives the first
C6_Witness ==
    /\ pc = "parse"
    /\ ev.type = "Start" /\ ev.tag = ProtoTag(Some(IP))
    /\ Len(packet.layers) = 2
    /\ packet.layers[1].name = IP /\ packet.layers[2].name = IP
    /\ Len(packet.layers[1].metadata) = 1
    /\ packet.layers[2].metadata = <<>>
    /\ PacketLayerName(packet, IP) = Some(packet.layers[1])

\* C7: no Metadata held by a packet has a name of the filters; reading a
\* field with such a name changes no layer and creates none, even when it
\* would have been the first field of its layer; and a self-closing decoded
\* field with a show attribute inside a protocol is added to the last layer
C7_FilteredFields ==
    /\ \A i \in 1..Len(CurPacket.layers) :
          \A j \in 1..Len(CurPacket.layers[i].metadata) :
              ~InFilters(CurPacket.layers[i].metadata[j].name)
    /\ FieldEvent /\ Readable(ev.tag.name) /\ InFilters(ev.tag.name[1]) =>
          pc = "parse" /\ packet.layers = pre.packet.layers
    /\ FieldEvent /\ ev.type = "Empty" /\ Decoded(ev.tag) /\ Readable(ev.tag.show)
            /\ pre.protoname # None
            /\ ~ignored_protocols(pre.protoname[1]) =>
          /\ Attached
          /\ Len(packet.layers) = Len(pre.packet.layers)
          /\ NewMetadata.name = ev.tag.name[1]

\* inside <proto name="ip">, ip.s was added and the filtered ip.f was not
C7_Witness ==
    /\ filters = <<IP_F>>
    /\ FieldEvent /\ ev.tag.name = Some(IP_F)
    /\ pre.protoname = Some(IP)
    /\ pc = "parse"
    /\ Len(packet.layers) = 1
    /\ Len(packet.layers[1].metadata) = 1
    /\ packet.layers[1].metadata[1].name = IP_S

\* C8: a self-closing timestamp field of the general information whose
\* value is the text of S seconds and N nanoseconds sets the packet's
\* timestamp to S * 1000000 + N \div 1000 microseconds, kept as the pair
\* (S, N \div 1000); "1652011560.275852000" gives 1652011560275852
C8_TimestampMicros ==
    /\ FieldEvent /\ ev.type = "Empty"
    /\ pre.protoname = Some(GENINFO)
    /\ ev.tag.name = Some(TIMESTAMP)
    =>  /\ \A sc \in TsSecs, ns \in TsNanos :
              ns < NANOS_PER_SEC /\ ev.tag.value = Some(FormatTimestamp(sc, ns)) =>
                  /\ pc = "parse"
                  /\ packet.timestamp_micros = Some(Wide(sc, ns \div 1000))
        /\ ev.tag.value = Some(TS_EXAMPLE) =>
              /\ pc = "parse"
              /\ packet.timestamp_micros = Some(Wide(1652011560, 275852))

\* the timestamp of the example was read
C8_Witness ==
    /\ FieldEvent /\ ev.type = "Empty"
    /\ pre.protoname = Some(GENINFO)
    /\ ev.tag.name = Some(TIMESTAMP)
    /\ ev.tag.value = Some(TS_EXAMPLE)
    /\ packet.timestamp_micros = Some(Wide(1652011560, 275852))

\* C9, as the specification states it: a decoded field read inside the fake
\* wrapper, self-closing or with children, is added to the last layer when
\* that layer's name is the prefix of the field's name and is dropped
\* otherwise, the packet staying as it was
C9_FakeWrapperField ==
    /\ FieldEvent /\ pc = "parse"
    /\ pre.protoname = Some(FAKE_FIELD_WRAPPER)
    /\ Decoded(ev.tag)
    =>  IF /\ pre.packet.layers # <<>>
           /\ LastLayer(pre.packet).name = SplitFirst(ev.tag.name[1])
        THEN /\ Attached
             /\ Len(packet.layers) = Len(pre.packet.layers)
        ELSE packet = pre.packet

C11_RunningAtEveryPoll ==
    /\ pc = "poll" => count \in 1..POLLS /\ obs.polls = POLLS - count
    /\ pc = "idle" /\ ev.type = "Eof" /\ child = "running"
            /\ obs.kill = NoKill =>
          /\ ret = Ok(None)
          /\ obs.polls = POLLS
          /\ pid(process) # None
          /\ obs.errs = 0
          /\ stderr = SubSeq(ErrLines, 1, obs.written)

\* the child wrote a line during the polls and kept running: Ok(None), the
\* handle and the line are all there
C11_Witness ==
    /\ pc = "idle" /\ ev.type = "Eof" /\ child = "running"
    /\ ret = Ok(None)
    /\ obs.polls = POLLS
    /\ pid(process) # None
    /\ stderr = <<ErrLines[1]>>

\* C12: after a kill() the handle is released (pid() is None); a kill() on a
\* released handle sends no signal and waits for nothing, and a step of an
\* idle session whose handle is released (only kill() can be called without
\* starting a read) changes nothing of the session
C12_KillIdempotent ==
    /\ [](obs.kill # NoKill => pid(process) = None)
    /\ [](obs.kill.found = "released" =>
              ~obs.kill.signalled /\ ~obs.kill.waited)
    /\ [][ pc = "idle" /\ pc' = "idle" /\ process = None =>
              UNCHANGED <<gen, child, stderr, process, filters, pc, packet,
                          protoname, count, ret>> ]_vars

\* a kill() was called on a session whose handle an earlier kill() released
C12_Witness ==
    /\ pc = "idle"
    /\ obs.kill.found = "released"
    /\ process = None
    /\ child = "reaped"
    /\ ev = NoEvent

\* C13: a kill() that finds the child running sends the signal and waits;
\* after any kill(), whatever try_wait, kill and wait reported, the child is
\* terminated and reaped, the handle is released and the session is idle
C13_KillRunning ==
    /\ obs.kill.found = "running" => obs.kill.signalled /\ obs.kill.waited
    /\ obs.kill # NoKill =>
          /\ child = "reaped"
          /\ pid(process) = None
          /\ pc \in {"idle", "dropped"}

\* a running child was killed between two reads and left a line
C13_Witness ==
    /\ pc = "idle"
    /\ obs.kill.found = "running"
    /\ obs.kill.signalled /\ obs.kill.waited
    /\ child = "reaped"
    /\ process = None
    /\ stderr # <<>>
    /\ ret.ok /\ ret.v # None

\* C14: once the session is discarded the child is terminated and reaped,
\* in whatever state the discard found it; and a handle is never released
\* while the child is running or not yet waited for
C14_NoLeak ==
    /\ pc = "dropped" => child = "reaped" /\ process = None
    /\ process = None => child = "reaped"

\* the session was discarded while the child had exited unobserved
C14_Witness ==
    /\ pc = "dropped"
    /\ obs.kill.found = "exited"
    /\ child = "reaped"

\* C15, as stated: pid() is Some exactly when the child is running
C15_PidIffRunning == pid(process) # None <=> child = "running"

\* C15, corrected: pid() is Some exactly while the session holds the handle;
\* it is Some whenever the child is running, and also after the child has
\* exited until a read() at the end of the stream or a kill() observes the
\* exit; it is None only when the child is terminated and reaped
C15_PidWhileHeld ==
    /\ pid(process) = process
    /\ child = "running" => pid(process) # None
    /\ pid(process) = None <=> child = "reaped"

\* the child has exited, no read() has polled it yet, and pid() is Some
C15_Witness ==
    /\ pc = "idle"
    /\ child = "exited"
    /\ pid(process) = Some("child")
    /\ ret = Ok(None)

\* C16: once a read() has returned Ok(None), no read() returns a packet
C16_NoPacketAfterNone ==
    obs.none => ~(pc = "idle" /\ ret.ok /\ ret.v # None)

\* after an Ok(None) a later read() has returned, with a diagnostic line
C16_Witness ==
    /\ obs.none
    /\ pc = "idle"
    /\ ret = ErrLine(ErrLines[1])

\* C17, as stated: a decoded field read inside a protocol that is not a
\* bookkeeping one, self-closing or with children, is added to the layer of
\* that protocol, which is the last one, and creates no layer
C17_FieldInProtocol ==
    /\ FieldEvent /\ pc = "parse"
    /\ pre.protoname # None
    /\ ~ignored_protocols(pre.protoname[1])
    /\ Decoded(ev.tag)
    =>  /\ Len(packet.layers) = Len(pre.packet.layers)
        /\ Attached
        /\ LastLayer(packet).name = LastLayer(pre.packet).name

\* C18, as stated: a field read inside the general information, self-closing
\* or with children, leaves the layers as they were; it changes the
\* timestamp only when its name is timestamp
C18_FieldInGeninfo ==
    /\ FieldEvent /\ pc = "parse"
    /\ pre.protoname = Some(GENINFO)
    =>  /\ packet.layers = pre.packet.layers
        /\ ev.tag.name # Some(TIMESTAMP) => packet = pre.packet

\* the text is an optional sign followed by one decimal digit or more
IsIntegerText(t) ==
    /\ t # <<>>
    /\ IF t[1] \in {"+", "-"}
       THEN Len(t) > 1 /\ \A i \in 2..Len(t) : t[i] \in Digits
       ELSE \A i \in 1..Len(t) : t[i] \in Digits

BeforeDot(t) == SubSeq(t, 1, Find(t, ".") - 1)

AfterDot(t) == SubSeq(t, Find(t, ".") + 1, Len(t))

\* the value attribute is no timestamp: no dot, a half that is no integer,
\* or nanoseconds no instant has (two seconds or more, or one second or more
\* outside a leap second)
BadTimestamp(t) ==
    \/ "." \notin Chars(t)
    \/ ~IsIntegerText(BeforeDot(t))
    \/ ~IsIntegerText(AfterDot(t))
    \/ \E sc \in TsSecs, ns \in TsNanos :
          /\ t = FormatTimestamp(sc, ns)
          /\ ns >= NANOS_LIMIT \/ (ns >= NANOS_PER_SEC /\ sc % 60 # 59)

\* C19: a self-closing timestamp field of the general information whose
\* value has no dot, has a half that is no integer or does not form an
\* instant ends the call with the InvalidData error and no packet
C19_BadTimestamp ==
    /\ FieldEvent /\ ev.type = "Empty"
    /\ pre.protoname = Some(GENINFO)
    /\ ev.tag.name = Some(TIMESTAMP)
    /\ Readable(ev.tag.value)
    /\ BadTimestamp(ev.tag.value[1])
    =>  ErrReturned /\ ret.kind = "InvalidData" /\ ret.v = <<>>

\* "1.5.0" was read: the second half is no integer
C19_Witness ==
    /\ FieldEvent /\ ev.type = "Empty"
    /\ pre.protoname = Some(GENINFO)
    /\ ev.tag.name = Some(TIMESTAMP)
    /\ ev.tag.value = Some(<<"1", ".", "5", ".", "0">>)
    /\ ErrReturned

C21_LaunchFailure ==
    /\ pc = "failed" => ~ret.ok /\ process = None /\ child = "none"
    /\ pc = "idle" => process # None /\ child = "running" /\ host.execs = 1
    /\ pc \in {"idle", "failed"} /\ ~builder.live_capture
            /\ Len(builder.input_path) > 1 =>
          pc = "failed" /\ ret = Err("InvalidInput") /\ host.execs = 0
    /\ pc \in {"idle", "failed"} /\ ~builder.live_capture
            /\ Len(builder.input_path) = 1
            /\ host.files[builder.input_path[1]] # "ok" =>
          /\ pc = "failed"
          /\ ret = Err(host.files[builder.input_path[1]])
          /\ host.execs = 0
    /\ pc \in {"idle", "failed"} /\ host.tshark # "ok" =>
          pc = "failed" /\ host.execs <= 1
    /\ pc = "failed" /\ host.execs = 1 => ret = Err(host.tshark)

\* spawn() was called, without live capture, on a single path that does not
\* exist, on a machine where tshark starts
C21_Witness ==
    /\ pc = "failed"
    /\ builder.input_path = <<"b.pcap">> /\ ~builder.live_capture
    /\ host.files["b.pcap"] = "NotFound" /\ host.tshark = "ok"
    /\ ret = Err("NotFound")
    /\ host.execs = 0
    /\ process = None
\* C22: a protocol tag named geninfo or fake-field-wrapper leaves the layers
\* as they are and becomes the protocol context; any other protocol tag with
\* a name appends one layer of that name, without metadata, and becomes the
\* context; the close of a protocol tag resets the context to none and
\* leaves the packet as it is
C22_ProtocolContext ==
    /\ ev.type = "Start" /\ ev.tag.elem = "proto" /\ Readable(ev.tag.name) =>
          /\ pc = "parse"
          /\ protoname = ev.tag.name
          /\ packet.timestamp_micros = pre.packet.timestamp_micros
          /\ IF ev.tag.name[1] \in {GENINFO, FAKE_FIELD_WRAPPER}
             THEN packet.layers = pre.packet.layers
             ELSE /\ Len(packet.layers) = Len(pre.packet.layers) + 1
                  /\ SubSeq(packet.layers, 1, Len(pre.packet.layers))
                        = pre.packet.layers
                  /\ LastLayer(packet).name = ev.tag.name[1]
                  /\ LastLayer(packet).metadata = <<>>
    /\ ev.type = "End" /\ ev.tag.elem = "proto" =>
          /\ pc = "parse"
          /\ protoname = None
          /\ packet = pre.packet

\* after <proto name="ip">, <proto name="fake-field-wrapper"> was read: it
\* is the context and the packet still has the one layer
C22_Witness ==
    /\ pc = "parse"
    /\ ev.type = "Start" /\ ev.tag = ProtoTag(Some(FAKE_FIELD_WRAPPER))
    /\ protoname = Some(FAKE_FIELD_WRAPPER)
    /\ Len(packet.layers) = 1
    /\ packet.layers[1].name = IP
OnlyIfNotExist ==
    \A i \in 1..Len(origin) : origin[i] = "push_if_not_exist"

C25_IndexIsPosition ==
    /\ \A i \in 1..PacketLayerCount(CurPacket) :
          /\ CurPacket.layers[i].index = i - 1
          /\ PacketLayerIndex(CurPacket, i - 1) = Some(CurPacket.layers[i])
    /\ PacketLayerIndex(CurPacket, PacketLayerCount(CurPacket)) = None

\* a packet was returned with two layers ip from protocol tags and a layer
\* tcp from a field without context, at 0, 1 and 2
C25_Witness ==
    /\ pc = "idle" /\ ret.ok /\ ret.v # None
    /\ PacketLayerCount(ret.v[1]) = 3
    /\ ret.v[1].layers[1].name = IP /\ ret.v[1].layers[2].name = IP
    /\ ret.v[1].layers[3].name = TCP
    /\ ret.v[1].layers[3].index = 2
    /\ origin = <<"proto", "proto", "field">>
\* the position of the first Metadata named name in ms
FirstNamed(ms, name) ==
    CHOOSE k \in 1..Len(ms) :
        /\ ms[k].name = name
        /\ \A j \in 1..(k - 1) : ms[j].name # name

\* C26: a field that is attached becomes the last Metadata of the last
\* layer, at the time its tag is read (a field with children before its
\* children), the Metadata read before it keeping their place, so each
\* layer holds its Metadata in the order of the report; and metadata(name)
\* returns the first Metadata of the layer with that name
C26_DocumentOrder ==
    /\ FieldEvent /\ pc = "parse" /\ pre.packet.layers # <<>> =>
          /\ SubSeq(packet.layers, 1, Len(pre.packet.layers) - 1)
                = SubSeq(pre.packet.layers, 1, Len(pre.packet.layers) - 1)
          /\ LET old == LastLayer(pre.packet).metadata
                 new == packet.layers[Len(pre.packet.layers)].metadata
             IN  SubSeq(new, 1, Len(old)) = old
    /\ Attached =>
          /\ NewMetadata.name = ev.tag.name[1]
          /\ \/ /\ Len(packet.layers) = Len(pre.packet.layers)
                /\ LastLayer(packet).metadata =
                      Append(LastLayer(pre.packet).metadata, NewMetadata)
             \/ /\ Len(packet.layers) = Len(pre.packet.layers) + 1
                /\ LastLayer(packet).metadata = <<NewMetadata>>
    /\ \A i \in 1..Len(packet.layers) :
          \A j \in 1..Len(packet.layers[i].metadata) :
              LayerMetadata(packet.layers[i], packet.layers[i].metadata[j].name)
                 = Some(packet.layers[i].metadata[
                           FirstNamed(packet.layers[i].metadata,
                                      packet.layers[i].metadata[j].name)])
    /\ \A i \in 1..Len(packet.layers) :
          LayerMetadata(packet.layers[i], NAME) = None

\* ip.s with show "1" was read, as a field with children, in a layer that
\* held ip.s with the value "0": it comes second and metadata("ip.s") is the
\* first
C26_Witness ==
    /\ Attached /\ ev.type = "Start"
    /\ ev.tag.name = Some(IP_S) /\ ev.tag.show = Some(ONE)
    /\ Len(packet.layers) = 1
    /\ Len(packet.layers[1].metadata) = 2
    /\ packet.layers[1].metadata[1].value = <<"0">>
    /\ packet.layers[1].metadata[2].value = ONE
    /\ LayerMetadata(packet.layers[1], IP_S) = Some(packet.layers[1].metadata[1])
\* the number a size or pos attribute stands for: None when the attribute is
\* missing, unreadable, empty, not made of digits, negative or above
\* 4294967295
NumberOf(a) ==
    CASE a = Some(<<"1", "2">>) -> Some(Wide(0, 12))
      [] a = Some(<<"+", "7">>) -> Some(Wide(0, 7))
      [] a = Some(<<"4", "2", "9", "4", "9", "6", "7", "2", "9", "5">>)
            -> Some(Wide(4294, 967295))
      [] OTHER -> None

\* C27: the Metadata of a field holds as size() and position() the numbers
\* of its size and pos attributes, None for an attribute that is missing or
\* is not a non-negative integer of 32 bits; and a field with a name and a
\* show attribute that is decoded is read without error whatever its size
\* and pos attributes are
C27_SizeAndPosition ==
    /\ Attached =>
          /\ NewMetadata.size = NumberOf(ev.tag.size)
          /\ NewMetadata.position = NumberOf(ev.tag.pos)
    /\ FieldEvent /\ Decoded(ev.tag) /\ Readable(ev.tag.show)
            /\ (ev.tag.size # None \/ ev.tag.pos # None) =>
          pc = "parse"
    /\ FieldEvent /\ Decoded(ev.tag) /\ Readable(ev.tag.show)
            /\ (ev.tag.size # None \/ ev.tag.pos # None)
            /\ pre.protoname \in {None, Some(IP), Some(TCP)} =>
          Attached

\* size="4294967296" pos="4294967295": the field is attached with size()
\* None and position() 4294967295
C27_Witness ==
    /\ Attached
    /\ ev.tag.size = Some(<<"4", "2", "9", "4", "9", "6", "7", "2", "9", "6">>)
    /\ ev.tag.pos = Some(<<"4", "2", "9", "4", "9", "6", "7", "2", "9", "5">>)
    /\ NewMetadata.size = None
    /\ NewMetadata.position = Some(U32_MAX)
\* the name is one that rtshark_build_metadata skips: empty, with the
\* diagnostic prefix, or in the filters
SkippedName(tag) ==
    /\ Readable(tag.name)
    /\ \/ tag.name[1] = <<>>
       \/ StartsWith(tag.name[1], WS_PREFIX)
       \/ InFilters(tag.name[1])

\* C28, as stated: a field with a skipped name gives no Metadata, no layer
\* and no error, whatever its other attributes and the context
C28_SkippedSilently ==
    FieldEvent /\ SkippedName(ev.tag) =>
        pc = "parse" /\ packet.layers = pre.packet.layers

\* C28, corrected: a field with a skipped name, whatever its other
\* attributes, leaves the packet and the context as they are and the call
\* goes on to the next tag, when it has children or is read outside the
\* general information; a self-closing field of the general information is
\* not compared with the filters: named timestamp it is read as the
\* timestamp even when filtered, and is an error without a readable value
C28_SkippedOutsideGeninfo ==
    /\ FieldEvent /\ SkippedName(ev.tag)
            /\ ~(ev.type = "Empty" /\ pre.protoname = Some(GENINFO)
                 /\ ev.tag.name = Some(TIMESTAMP)) =>
          pc = "parse" /\ packet = pre.packet /\ protoname = pre.protoname
    /\ FieldEvent /\ SkippedName(ev.tag)
            /\ ev.type = "Empty" /\ pre.protoname = Some(GENINFO)
            /\ ev.tag.name = Some(TIMESTAMP) =>
          /\ packet.layers = pre.packet.layers
          /\ ~Readable(ev.tag.value) => ErrReturned

\* a field with children named _ws.e, whose show attribute is not UTF-8,
\* was read inside the protocol tcp: nothing changed and the call goes on
C28_Witness ==
    /\ FieldEvent /\ ev.type = "Start"
    /\ ev.tag.name = Some(WS_E) /\ ev.tag.show = Some(BAD)
    /\ pre.protoname = Some(TCP)
    /\ pc = "parse"
    /\ packet = pre.packet
\* C29: a protocol tag without a name attribute, or with one that is not
\* UTF-8, ends the call with an error (InvalidInput, InvalidData) and no
\* packet; the packet under construction is given up with it, no layer
\* having been pushed for the tag
C29_ProtocolWithoutName ==
    ev.type = "Start" /\ ev.tag.elem = "proto" /\ ~Readable(ev.tag.name) =>
        /\ ErrReturned
        /\ ret.v = <<>>
        /\ ret.kind = IF ev.tag.name = None THEN "InvalidInput"
                      ELSE "InvalidData"
        /\ packet = PacketNew /\ protoname = None
        /\ Len(origin) = Len(pre.packet.layers)

\* after <proto name="ip">, a protocol tag whose name is not UTF-8 was read
C29_Witness ==
    /\ ev.type = "Start" /\ ev.tag = ProtoTag(Some(<<BadUtf8>>))
    /\ Len(pre.packet.layers) = 1
    /\ ErrReturned /\ ret.kind = "InvalidData"
\* C30: whenever the protocol context is a protocol that is not a
\* bookkeeping one the packet under construction has a layer, set by the
\* tag that gave the context, so the unwrap of the last layer for a
\* self-closing field never panics, also in a call that starts inside a
\* protocol element after an error
C30_LayerUnderContext ==
    /\ protoname # None /\ ~ignored_protocols(protoname[1]) =>
          /\ packet.layers # <<>>
          /\ pc = "parse"
    /\ ret.kind # "Panic"
    /\ FieldEvent /\ ev.type = "Empty" /\ pre.protoname # None
            /\ ~ignored_protocols(pre.protoname[1]) =>
          pre.packet.layers # <<>>

\* after an error inside a packet, the next call read <proto name="ip"> and
\* a self-closing field, which was added to the layer of that tag
C30_Witness ==
    /\ ~hist.clean
    /\ FieldEvent /\ ev.type = "Empty"
    /\ pre.protoname = Some(IP)
    /\ Attached
    /\ Len(packet.layers) = 1
    /\ origin = <<"proto">>
\* the call has returned a packet
SomeReturned == pc = "idle" /\ ret.ok /\ ret.v # None

\* C31: a decode call starts from a packet without layers and timestamp and
\* from no protocol context; every layer of the packet under construction
\* and of the packet returned was pushed by a tag read during the call; a
\* returned packet is the caller's: no step outside a new call changes it
C31_FreshPerCall ==
    [][/\ pc' = "parse" /\ ev' = NoEvent =>
             /\ packet'.layers = <<>>
             /\ packet'.timestamp_micros = None
             /\ protoname' = None
       /\ pc' = "parse" \/ SomeReturned' =>
             Len(origin') = Len(CurPacket'.layers)
       /\ pc' = "parse" /\ ev'.type # "None" /\ pc = "parse" =>
             /\ Len(pre'.packet.layers) = Len(origin)
             /\ pre'.packet = packet
       /\ SomeReturned /\ pc' # "parse" /\ pc' # "dropped" => ret' = ret
      ]_vars

\* the second packet of the stream, of one protocol tag, was returned with
\* one layer after the first packet had been returned
C31_Witness ==
    /\ SomeReturned
    /\ hist.clean /\ hist.somes = 2
    /\ Len(ret.v[1].layers) = 1
    /\ gen.pkts = 2 /\ gen.tags = 1
\* C32: a read() whose decoder returns a packet or an error returns that
\* result and leaves the handle, the child, the diagnostic lines and the
\* poll counter as they are, also while unread diagnostic lines exist; the
\* exit status is polled, the handle released and a diagnostic line read
\* only in a call whose decoder has read the end of the report
C32_OnlyAtEndOfInput ==
    [][/\ pc = "parse" /\ pc' = "idle" /\ ev'.type # "Eof" =>
             /\ ret' = IF ev'.type = "End" THEN Ok(Some(PipePacket))
                       ELSE Err("InvalidData")
             /\ process' = process
             /\ stderr' = stderr
             /\ child' = child
             /\ count' = count
             /\ obs' = obs
       /\ \/ obs'.polls > obs.polls
          \/ Len(stderr') < Len(stderr)
          \/ process' # process
          \/ child' = "reaped" /\ child # "reaped"
          => ev'.type = "Eof" /\ pc \in {"parse", "poll"}
      ]_vars

\* read() returned a packet while the child, still running, had written a
\* diagnostic line that is unread
C32_Witness ==
    /\ SomeReturned
    /\ ev.type = "End"
    /\ stderr # <<>>
    /\ process # None
    /\ child = "running"
    /\ obs.polls = 0
\* C33: kill() sends the signal only for a handle whose try_wait reported
\* the child running or reported an error; for a child that has exited and
\* whose try_wait succeeded it sends no signal and does not wait: the exit
\* status is collected by the check and the handle released
C33_SignalOnlyIfRunning ==
    /\ obs.kill.signalled =>
          /\ obs.kill.found \in {"running", "exited"}
          /\ obs.kill.found = "running" \/ obs.kill.check = "err"
    /\ obs.kill.found = "exited" /\ obs.kill.check = "ok" =>
          /\ ~obs.kill.signalled
          /\ ~obs.kill.waited
          /\ process = None
          /\ child = "reaped"

\* kill() was called on the handle of a child that had exited after its
\* output: no signal, the handle released and the child reaped
C33_Witness ==
    /\ pc = "idle"
    /\ obs.kill.found = "exited" /\ obs.kill.check = "ok"
    /\ ~obs.kill.signalled
    /\ process = None
    /\ child = "reaped"
\* a read() returns in this step
ReadReturns == pc \in {"parse", "poll"} /\ pc' = "idle"

C35_WholePacketOnly ==
    SomeReturned /\ ev.type = "End" =>
        /\ ~hist.torn
        /\ hist.clean => ProtoNames(ret.v[1].layers, origin) = hist.protos
\* C36: a call that reads the end of the input returns no packet, whatever
\* it has built: the packet under construction is given up and the call
\* goes on as for Ok(None), returning Ok(None) or a diagnostic line; after
\* the end of the input no call builds or returns a packet
C36_PartialPacketDiscarded ==
    /\ ev.type = "Eof" =>
          /\ ~SomeReturned
          /\ packet = PacketNew /\ protoname = None
          /\ pc \in {"poll", "idle"}
          /\ pc = "idle" /\ ret.ok => ret = Ok(None)
          /\ pc = "idle" /\ ~ret.ok =>
                ret.kind = "InvalidInput" /\ ret.v \in {ErrLines[i] : i \in 1..MaxErrLines}
    /\ gen.ended /\ pc = "parse" => packet = PacketNew /\ origin = <<>>
    /\ gen.ended /\ SomeReturned => obs.kill # NoKill

\* the output ended inside a packet element for which the call had built a
\* layer: the call, the first one of the session, returned Ok(None)
C36_Witness ==
    /\ ev.type = "Eof"
    /\ origin # <<>>
    /\ pc = "idle"
    /\ ret = Ok(None)
    /\ hist.clean /\ hist.calls = 1
\* C37, as stated: the session and the child never wait for each other: a
\* read() that waits for bytes of the report, the pipe being empty and open,
\* has a running child that is not held by a write on its standard error,
\* so that the child goes on to its next packet or to its exit
C37_NoDeadlock ==
    pc = "parse" /\ pipes.out = 0 /\ ~gen.ended /\ child = "running" =>
        pipes.op # "err"
\* C38, as stated: while batch() waits for the exit of the child, the child
\* is never held by a write to its piped standard output or standard
\* error, so that it runs to its exit and batch() returns; batch() then
\* returns the InvalidInput error carrying the first diagnostic line when
\* the child failed and wrote one, and Ok(()) otherwise
C38_BatchReturns ==
    /\ pc = "wait" /\ child = "running" => pipes.op = "none"
    /\ pc = "done" =>
          ret = IF pipes.status # "success" /\ obs.written > 0
                THEN ErrLine(ErrLines[1]) ELSE OkUnit
====
